---------------------------- MODULE Spec2Model ----------------------------
(***************************************************************************)
(* A model of the RAG chatbot's coordination logic:                        *)
(*   - the process-wide resource caches (st.cache_resource getters of      *)
(*     utils/chroma_utils.py and utils/langchain_utils.py),                *)
(*   - the relational store (utils/db_utils.py),                           *)
(*   - the upload / delete workflows of app/sidebar.py,                    *)
(*   - the chat exchange of app/chat_interface.py.                         *)
(* Collaborators outside the repository (the embedding provider, Chroma,   *)
(* the LLM, SQLite, the document loaders) are modelled by their outcomes:  *)
(* each call either succeeds or fails the way the calling code handles.    *)
(***************************************************************************)
EXTENDS Integers, Sequences, FiniteSets, TLC

(***************************************************************************)
(* Inputs and bounds                                                       *)
(***************************************************************************)

\* The Python value None.
NoneValue == [kind |-> "None"]

\* chroma_utils.py:36-39: the embedding model and dimensionality are read
\* once from the environment; the defaults are modelled (dimensionality
\* unset, i.e. None).
NOMIC_MODEL_NAME == "nomic-embed-text-v1.5"

NOMIC_DIMENSIONALITY == NoneValue

\* chroma_utils.py:10-20: whether `from langchain_nomic import NomicEmbeddings`
\* succeeded when the module was imported.
NomicEmbeddingsImported == TRUE

\* sidebar.py:53: the models the selectbox offers.
model_options == {"llama-3.1-8b-instant", "llama-3.3-70b-versatile"}

\* API keys a user may type into the sidebar ("" is the empty text input).
NomicKeys == {"", "nk1", "nk2"}

GroqKeys == {"", "gk1"}

\* The (Nomic key, Groq key) pairs the chain getter is called with when it is
\* exercised on its own: both keys present, and each key missing in turn.
ChainCallKeys ==
    {<<"nk1", "gk1">>, <<"nk2", "gk1">>, <<"", "gk1">>, <<"nk1", "">>}

\* The browser sessions served by the one process.
Sessions == {"A", "B"}

\* Files a user may pick in the uploader (sidebar.py:64-65 admits pdf, docx
\* and html): the name, and the suffix os.path.splitext gives for it.
Files ==
    { [name |-> "a.pdf", ext |-> ".pdf"],
      [name |-> "b.docx", ext |-> ".docx"] }

\* The files uploaded where the two sessions' workflows are interleaved.
DocsFiles == {f \in Files : f.name = "a.pdf"}

\* How many rows document_store's AUTOINCREMENT counter may hand out.
MaxDocs == 2

\* The most chunks the splitter makes of one document.
MaxChunks == 2

\* How a call on the relational store can go: no fault, sqlite3.Error raised
\* by a statement or by the commit, or sqlite3.connect failing (which
\* get_db_connection turns into ConnectionError).
DbFaults == {"none", "sqlite3.Error", "connect"}

\* The sessions that use the chat pane.
ChatSessions == {"A"}

\* Questions a user may type into the chat input (never empty:
\* chat_interface.py:34 ignores an empty input).
Prompts == {"q1", "q2"}

\* Answers the chain may give; the LLM may return an empty text.
Answers == {"a1", ""}

\* How many questions a session asks.
MaxTurns == 2

\* The last second the clock reaches (it starts at 0).
MaxClock == 1

VARIABLES
    db,         \* the SQLite file: the tables it has, document_store rows,
                \* the AUTOINCREMENT counter of document_store,
                \* application_logs rows
    chunks,     \* the Chroma collection: one element per stored chunk
    ss,         \* per session: st.session_state (the API keys, the selected
                \* model, the session id, the chat messages, the documents)
    sb,         \* per session: where display_sidebar is in the current
                \* script run, its locals and what it has put on the page
    ci,         \* per session: where display_chat_interface is in the
                \* current script run, its locals and what it has put on the
                \* page
    now,        \* the last reading of the clock behind SQLite's
                \* CURRENT_TIMESTAMP, in seconds
    res,        \* process-wide state shared by every session: the three
                \* st.cache_resource caches, os.environ["NOMIC_API_KEY"],
                \* db_utils._db_initialized, and (history) the keys whose
                \* construction failed
    gc,         \* per session: the call of a cached getter the session's
                \* script thread is in, when the call is followed step by
                \* step (lookup, wait for the key's lock, construction)
    boot,       \* per session: where the script thread is in
                \* ensure_db_initialized at the top of a script run
    ix          \* the last call made directly on an ingestion function of
                \* chroma_utils.py: its arguments, what the collaborators
                \* did, and what it returned, raised and displayed

vars == <<db, chunks, ss, sb, ci, now, res, gc, boot, ix>>

(***************************************************************************)
(* Resource caches                                                         *)
(***************************************************************************)

\* A cache key for get_embedding_function that hashes the API key only.
EmbKey_ApiKeyOnly(nomic_api_key, model, dimensionality) ==
    [nomic_api_key |-> nomic_api_key, model |-> NOMIC_MODEL_NAME,
     dimensionality |-> NOMIC_DIMENSIONALITY]

\* The key st.cache_resource derives for get_embedding_function: all three
\* arguments are hashed.
EmbKey(nomic_api_key, model, dimensionality) ==
    [nomic_api_key |-> nomic_api_key, model |-> model,
     dimensionality |-> dimensionality]

\* The key st.cache_resource derives for get_vector_store: its only parameter
\* is named _embedding_function, and Streamlit leaves parameters whose name
\* starts with an underscore out of the key, so every call has the same key.
VsKey(_embedding_function) == <<>>

\* The key st.cache_resource derives for get_cached_rag_chain.
ChainKey(model, nomic_api_key, groq_api_key) ==
    [model |-> model, nomic_api_key |-> nomic_api_key,
     groq_api_key |-> groq_api_key]

\* st.cache_resource on a miss: the value the function returned is stored
\* under the key, whatever it is (None included).  An exception leaving the
\* function would store nothing, but the getters catch every exception.
CacheStore(cache, key, value) ==
    [k \in DOMAIN cache \cup {key} |-> IF k = key THEN value ELSE cache[k]]

\* History: remember that the construction for (getter, key) failed.
NoteFailed(r, getter, key) ==
    [r EXCEPT !.failed = @ \cup {[getter |-> getter, key |-> key]}]

\* History: count one run of a getter's body (a cache miss).
NoteRun(r, getter, key) ==
    [r EXCEPT !.runs = @ \cup {[getter |-> getter, key |-> key]}]

\* chroma_utils.py:51-82, the body of get_embedding_function.  The set of
\* outcomes [ret, r]: the value returned and the process state afterwards.
\* NomicEmbeddings(...) either returns a client or raises (ValueError or any
\* other exception); both handlers return None.
EmbeddingBody(r, key) ==
    IF ~NomicEmbeddingsImported THEN {[ret |-> NoneValue, r |-> r]}
    ELSE IF key.nomic_api_key = "" THEN {[ret |-> NoneValue, r |-> r]}
    ELSE LET r1 == [r EXCEPT !.environ = key.nomic_api_key]
         IN  { [ret |-> [kind |-> "NomicEmbeddings",
                         nomic_api_key |-> key.nomic_api_key,
                         model |-> key.model,
                         dimensionality |-> key.dimensionality],
                r |-> r1],
               [ret |-> NoneValue, r |-> NoteFailed(r1, "embedding", key)] }

\* chroma_utils.py:45-82, get_embedding_function behind st.cache_resource.
get_embedding_function(r, nomic_api_key, model, dimensionality) ==
    LET key == EmbKey(nomic_api_key, model, dimensionality)
    IN  IF key \in DOMAIN r.emb_cache
        THEN {[ret |-> r.emb_cache[key], r |-> r]}
        ELSE { [ret |-> o.ret,
                r |-> [NoteRun(o.r, "embedding", key) EXCEPT !.emb_cache =
                          CacheStore(@, key, o.ret)]]
               : o \in EmbeddingBody(r, key) }

\* chroma_utils.py:89-114, the body of get_vector_store.  Chroma(...) either
\* returns a handle on the one persist directory or raises; the handler
\* returns None.
VectorStoreBody(r, _embedding_function) ==
    IF _embedding_function = NoneValue THEN {[ret |-> NoneValue, r |-> r]}
    ELSE { [ret |-> [kind |-> "Chroma",
                     embedding_function |-> _embedding_function],
            r |-> r],
           [ret |-> NoneValue,
            r |-> NoteFailed(r, "vector_store", VsKey(_embedding_function))] }

\* chroma_utils.py:87-114, get_vector_store behind st.cache_resource.
get_vector_store(r, _embedding_function) ==
    LET key == VsKey(_embedding_function)
    IN  IF key \in DOMAIN r.vs_cache
        THEN {[ret |-> r.vs_cache[key], r |-> r]}
        ELSE { [ret |-> o.ret,
                r |-> [NoteRun(o.r, "vector_store", key) EXCEPT !.vs_cache =
                          CacheStore(@, key, o.ret)]]
               : o \in VectorStoreBody(r, _embedding_function) }

\* chroma_utils.py:121-123, 172-174, 225-227: the two getter calls every user
\* of the vector store starts with.
ResolveVectorStore(r, nomic_api_key) ==
    UNION { get_vector_store(e.r, e.ret)
            : e \in get_embedding_function(r, nomic_api_key, NOMIC_MODEL_NAME,
                                           NOMIC_DIMENSIONALITY) }

\* A chain assembled over a store of its own, filled from the collection
\* when the chain is built, instead of over the handle it was given.
ChainAssembly_OwnStore(r, key, vectorstore_instance) ==
    { [ret |-> [kind |-> "rag_chain", model |-> key.model,
                groq_api_key |-> key.groq_api_key,
                vectorstore |->
                    [kind |-> "Chroma copy",
                     embedding_function |->
                         vectorstore_instance.embedding_function]],
       r |-> r],
      [ret |-> NoneValue, r |-> NoteFailed(r, "rag_chain", key)] }

\* langchain_utils.py:110-149: the retriever, the ChatGroq client and the
\* three chain constructors; any of them may raise, and both handlers
\* return None.
ChainAssembly(r, key, vectorstore_instance) ==
    { [ret |-> [kind |-> "rag_chain", model |-> key.model,
                groq_api_key |-> key.groq_api_key,
                vectorstore |-> vectorstore_instance],
       r |-> r],
      [ret |-> NoneValue, r |-> NoteFailed(r, "rag_chain", key)] }

\* A body of get_cached_rag_chain without the `if embedding_func is None`
\* and `if vectorstore_instance is None` checks: the chain is assembled on
\* whatever the getters returned.
RagChainBody_Unchecked(r, key) ==
    IF key.nomic_api_key = "" THEN {[ret |-> NoneValue, r |-> r]}
    ELSE IF key.groq_api_key = "" THEN {[ret |-> NoneValue, r |-> r]}
    ELSE UNION {
           UNION {
               {[ret |-> [kind |-> "rag_chain", model |-> key.model,
                          groq_api_key |-> key.groq_api_key,
                          vectorstore |-> v.ret],
                 r |-> IF v.ret = NoneValue
                       THEN NoteFailed(v.r, "rag_chain", key)
                       ELSE v.r]}
               : v \in get_vector_store(e.r, e.ret) }
           : e \in get_embedding_function(r, key.nomic_api_key,
                                          NOMIC_MODEL_NAME,
                                          NOMIC_DIMENSIONALITY) }

\* langchain_utils.py:64-149, the body of get_cached_rag_chain.
RagChainBody(r, key) ==
    IF key.nomic_api_key = "" THEN {[ret |-> NoneValue, r |-> r]}
    ELSE IF key.groq_api_key = "" THEN {[ret |-> NoneValue, r |-> r]}
    ELSE UNION {
           IF e.ret = NoneValue
           THEN {[ret |-> NoneValue, r |-> NoteFailed(e.r, "rag_chain", key)]}
           ELSE UNION {
                  IF v.ret = NoneValue
                  THEN {[ret |-> NoneValue,
                         r |-> NoteFailed(v.r, "rag_chain", key)]}
                  ELSE ChainAssembly(v.r, key, v.ret)
                  : v \in get_vector_store(e.r, e.ret) }
           : e \in get_embedding_function(r, key.nomic_api_key,
                                          NOMIC_MODEL_NAME,
                                          NOMIC_DIMENSIONALITY) }

\* langchain_utils.py:59-149, get_cached_rag_chain behind st.cache_resource.
get_cached_rag_chain(r, model, nomic_api_key, groq_api_key) ==
    LET key == ChainKey(model, nomic_api_key, groq_api_key)
    IN  IF key \in DOMAIN r.chain_cache
        THEN {[ret |-> r.chain_cache[key], r |-> r]}
        ELSE { [ret |-> o.ret,
                r |-> [NoteRun(o.r, "rag_chain", key) EXCEPT !.chain_cache =
                          CacheStore(@, key, o.ret)]]
               : o \in RagChainBody(r, key) }

\* The keys under which get_cached_rag_chain has a chain in its cache (a
\* cached None is no chain).
CachedChains(r) ==
    {k \in DOMAIN r.chain_cache : r.chain_cache[k] # NoneValue}

\* chroma_utils.py:95-103: a Chroma handle holds no chunks of its own; each
\* query reads the collection in the persist directory as it is then.
CollectionOf(vectorstore_instance, ch) ==
    IF vectorstore_instance.kind = "Chroma" THEN ch ELSE {}

\* langchain_utils.py:114, 130-140: the chunks the chain's retriever searches
\* when the chain is invoked on a store that holds ch.
Retrievable(rag_chain, ch) == CollectionOf(rag_chain.vectorstore, ch)

\* The process state when the application starts: nothing cached, the
\* NOMIC_API_KEY environment variable not yet written by the application.
InitRes ==
    [emb_cache |-> <<>>, vs_cache |-> <<>>, chain_cache |-> <<>>,
     environ |-> "", db_initialized |-> TRUE, failed |-> {}, runs |-> {}]

(***************************************************************************)
(* Relational store (utils/db_utils.py)                                    *)
(***************************************************************************)

\* The database after _initialize_database: both tables exist and are empty.
Tables == {"application_logs", "document_store"}

InitDb ==
    [tables |-> Tables, document_store |-> {}, doc_seq |-> 0,
     application_logs |-> <<>>]

\* An insert_document_record on a table without the UNIQUE constraint on
\* filename.
insert_document_record_NoUnique(d, filename, fault) ==
    IF fault = "connect"
    THEN [ret |-> 0, exc |-> "ConnectionError", db |-> d]
    ELSE IF fault = "sqlite3.Error"
    THEN [ret |-> 0, exc |-> "RuntimeError", db |-> d]
    ELSE [ret |-> d.doc_seq + 1, exc |-> "",
          db |-> [d EXCEPT !.document_store =
                               @ \cup {[id |-> d.doc_seq + 1,
                                        filename |-> filename]},
                           !.doc_seq = @ + 1]]

\* An insert_document_record whose INSERT is committed before a storage
\* error is raised: the caller sees RuntimeError and the row is there.
insert_document_record_CommitsThenRaises(d, filename, fault) ==
    IF fault = "connect"
    THEN [ret |-> 0, exc |-> "ConnectionError", db |-> d]
    ELSE IF \E row \in d.document_store : row.filename = filename
    THEN [ret |-> 0, exc |-> "ValueError", db |-> d]
    ELSE [ret |-> IF fault = "sqlite3.Error" THEN 0 ELSE d.doc_seq + 1,
          exc |-> IF fault = "sqlite3.Error" THEN "RuntimeError" ELSE "",
          db |-> [d EXCEPT !.document_store =
                               @ \cup {[id |-> d.doc_seq + 1,
                                        filename |-> filename]},
                           !.doc_seq = @ + 1]]

\* An insert_document_record on a table whose id is INTEGER PRIMARY KEY
\* without AUTOINCREMENT: SQLite hands out one more than the largest id in
\* the table, so the id of a deleted last row is handed out again.
insert_document_record_MaxRowid(d, filename, fault) ==
    IF fault = "connect"
    THEN [ret |-> 0, exc |-> "ConnectionError", db |-> d]
    ELSE IF fault = "sqlite3.Error"
    THEN [ret |-> 0, exc |-> "RuntimeError", db |-> d]
    ELSE IF \E row \in d.document_store : row.filename = filename
    THEN [ret |-> 0, exc |-> "ValueError", db |-> d]
    ELSE LET top == IF d.document_store = {} THEN 0
                    ELSE CHOOSE i \in {row.id : row \in d.document_store} :
                             \A row \in d.document_store : row.id <= i
         IN  [ret |-> top + 1, exc |-> "",
              db |-> [d EXCEPT !.document_store =
                                   @ \cup {[id |-> top + 1,
                                            filename |-> filename]},
                               !.doc_seq = top + 1]]

\* db_utils.py:126-145.  The result [ret, exc, db]: the id returned (0 stands
\* for None: ids start at 1 and callers only test `if file_id`), the
\* exception raised ("" for none) and the database afterwards.
\* AUTOINCREMENT hands out doc_seq + 1 and never reuses an id; UNIQUE on
\* filename raises sqlite3.IntegrityError, re-raised as ValueError; any other
\* sqlite3.Error is re-raised as RuntimeError; ConnectionError from
\* get_db_connection is not caught here.
insert_document_record(d, filename, fault) ==
    IF fault = "connect"
    THEN [ret |-> 0, exc |-> "ConnectionError", db |-> d]
    ELSE IF fault = "sqlite3.Error"
    THEN [ret |-> 0, exc |-> "RuntimeError", db |-> d]
    ELSE IF \E row \in d.document_store : row.filename = filename
    THEN [ret |-> 0, exc |-> "ValueError", db |-> d]
    ELSE [ret |-> d.doc_seq + 1, exc |-> "",
          db |-> [d EXCEPT !.document_store =
                               @ \cup {[id |-> d.doc_seq + 1,
                                        filename |-> filename]},
                           !.doc_seq = @ + 1]]

\* A delete_document_record that treats "no row matched" as a failure.
delete_document_record_NotFoundFails(d, file_id, fault) ==
    IF fault = "connect"
    THEN [ret |-> FALSE, exc |-> "ConnectionError", db |-> d]
    ELSE IF fault = "sqlite3.Error"
    THEN [ret |-> FALSE, exc |-> "", db |-> d]
    ELSE [ret |-> \E row \in d.document_store : row.id = file_id,
          exc |-> "",
          db |-> [d EXCEPT !.document_store =
                               {row \in @ : row.id # file_id}]]

\* A delete_document_record that reports success without removing the row.
delete_document_record_KeepsRow(d, file_id, fault) ==
    IF fault = "connect"
    THEN [ret |-> FALSE, exc |-> "ConnectionError", db |-> d]
    ELSE IF fault = "sqlite3.Error"
    THEN [ret |-> FALSE, exc |-> "", db |-> d]
    ELSE [ret |-> TRUE, exc |-> "", db |-> d]

\* db_utils.py:148-167.  True when the DELETE ran (whether or not a row
\* matched), False on sqlite3.Error; ConnectionError is not caught.
delete_document_record(d, file_id, fault) ==
    IF fault = "connect"
    THEN [ret |-> FALSE, exc |-> "ConnectionError", db |-> d]
    ELSE IF fault = "sqlite3.Error"
    THEN [ret |-> FALSE, exc |-> "", db |-> d]
    ELSE [ret |-> TRUE, exc |-> "",
          db |-> [d EXCEPT !.document_store =
                               {row \in @ : row.id # file_id}]]

\* db_utils.py:170-181.  The rows (their order is not modelled), [] on
\* sqlite3.Error; ConnectionError is not caught.
get_all_documents(d, fault) ==
    IF fault = "connect"
    THEN [ret |-> {}, exc |-> "ConnectionError"]
    ELSE IF fault = "sqlite3.Error"
    THEN [ret |-> {}, exc |-> ""]
    ELSE [ret |-> d.document_store, exc |-> ""]

(***************************************************************************)
(* Ingestion (utils/chroma_utils.py)                                       *)
(***************************************************************************)

\* str(file_id) for the ids the model hands out.
Str(i) == <<"1", "2", "3", "4", "5", "6", "7", "8", "9">>[i]

\* The extensions load_and_split_document has a loader for
\* (chroma_utils.py:141-146).
SupportedExtensions == {".pdf", ".docx", ".html"}

\* What the loader and splitter make of a staged file: a number of chunks
\* (0: nothing to split), or an exception from loader.load() or the
\* splitter, which is a ValueError (a UnicodeDecodeError is one) or of
\* another class.
LoadOutcomes ==
    {[raised |-> "", splits |-> n] : n \in 0..MaxChunks}
        \cup {[raised |-> e, splits |-> 0] : e \in {"ValueError", "Exception"}}

\* chroma_utils.py:138-167.  [ret, exc, shown]: the number of splits returned,
\* the exception raised ("" for none), and the st.error calls made.  The
\* handler at line 157 re-raises every ValueError raised in the try block,
\* the one of line 149 and any that a loader or the splitter raises.
load_and_split_document(ext, loaded) ==
    IF ext \notin SupportedExtensions
    THEN [ret |-> 0, exc |-> "ValueError", shown |-> {}]
    ELSE IF loaded.raised = "ValueError"
    THEN [ret |-> 0, exc |-> "ValueError", shown |-> {}]
    ELSE IF loaded.raised # ""
    THEN [ret |-> 0, exc |-> "", shown |-> {"Failed to process document"}]
    ELSE [ret |-> loaded.splits, exc |-> "", shown |-> {}]

\* A tagging loop that writes the same tag whatever the id.
TagSplits_SameTag(n, file_id) == {[file_id |-> "0", n |-> i] : i \in 1..n}

\* chroma_utils.py:192-198: every split gets metadata file_id = str(file_id).
TagSplits(n, file_id) == {[file_id |-> Str(file_id), n |-> i] : i \in 1..n}

\* An index_document_to_chroma whose try block starts after the call of
\* load_and_split_document: what that call raises leaves the function.
IndexWithStore_LoadOutsideTry(ch, ext, file_id, loaded, add_ok) ==
    LET ls == load_and_split_document(ext, loaded)
    IN  IF ls.exc # ""
        THEN [ret |-> FALSE, exc |-> ls.exc, chunks |-> ch, shown |-> {}]
        ELSE IF ls.ret = 0
        THEN [ret |-> FALSE, exc |-> "", chunks |-> ch, shown |-> ls.shown]
        ELSE IF ~add_ok
        THEN [ret |-> FALSE, exc |-> "", chunks |-> ch,
              shown |-> {"Indexing failed"}]
        ELSE [ret |-> TRUE, exc |-> "",
              chunks |-> ch \cup TagSplits(ls.ret, file_id), shown |-> {}]

\* An index_document_to_chroma over a store whose add_documents writes the
\* chunks one by one: when it raises, the first chunk has been stored.
IndexWithStore_PartialWrite(ch, ext, file_id, loaded, add_ok) ==
    LET ls == load_and_split_document(ext, loaded)
    IN  IF ls.exc # ""
        THEN [ret |-> FALSE, exc |-> "", chunks |-> ch,
              shown |-> {"Indexing failed"}]
        ELSE IF ls.ret = 0
        THEN [ret |-> FALSE, exc |-> "", chunks |-> ch, shown |-> ls.shown]
        ELSE IF ~add_ok
        THEN [ret |-> FALSE, exc |-> "",
              chunks |-> ch \cup TagSplits(1, file_id),
              shown |-> {"Indexing failed"}]
        ELSE [ret |-> TRUE, exc |-> "",
              chunks |-> ch \cup TagSplits(ls.ret, file_id), shown |-> {}]

\* An index_document_to_chroma without the `if not splits` test of line 187
\* and the `if not docs_to_add` test of line 199.
IndexWithStore_NoEmptyCheck(ch, ext, file_id, loaded, add_ok) ==
    LET ls == load_and_split_document(ext, loaded)
    IN  IF ls.exc # ""
        THEN [ret |-> FALSE, exc |-> "", chunks |-> ch,
              shown |-> {"Indexing failed"}]
        ELSE IF ~add_ok
        THEN [ret |-> FALSE, exc |-> "", chunks |-> ch,
              shown |-> {"Indexing failed"}]
        ELSE [ret |-> TRUE, exc |-> "",
              chunks |-> ch \cup TagSplits(ls.ret, file_id), shown |-> {}]

\* chroma_utils.py:181-221, index_document_to_chroma once it holds a vector
\* store.  [ret, exc, chunks, shown]; exc is the exception that leaves the
\* function ("" for none).  add_documents embeds all chunks and then upserts
\* them in one batch: it either stores them all (add_ok) or raises having
\* stored none.
IndexWithStore(ch, ext, file_id, loaded, add_ok) ==
    LET ls == load_and_split_document(ext, loaded)
    IN  IF ls.exc # ""
        THEN [ret |-> FALSE, exc |-> "", chunks |-> ch,
              shown |-> {"Indexing failed"}]
        ELSE IF ls.ret = 0
        THEN [ret |-> FALSE, exc |-> "", chunks |-> ch, shown |-> ls.shown]
        ELSE IF ~add_ok
        THEN [ret |-> FALSE, exc |-> "", chunks |-> ch,
              shown |-> {"Indexing failed"}]
        ELSE [ret |-> TRUE, exc |-> "",
              chunks |-> ch \cup TagSplits(ls.ret, file_id), shown |-> {}]

\* chroma_utils.py:170-221.  The outcomes [ret, exc, r, chunks, shown].
index_document_to_chroma(r, ch, ext, file_id, nomic_api_key, loaded, add_ok) ==
    { IF v.ret = NoneValue
      THEN [ret |-> FALSE, exc |-> "", r |-> v.r, chunks |-> ch,
            shown |-> {}]
      ELSE LET o == IndexWithStore(ch, ext, file_id, loaded, add_ok)
           IN  [ret |-> o.ret, exc |-> o.exc, r |-> v.r, chunks |-> o.chunks,
                shown |-> o.shown]
      : v \in ResolveVectorStore(r, nomic_api_key) }

\* A delete_doc_from_chroma whose filter matches nothing (the id is compared
\* as a number with tags that are strings): it reports success and removes
\* no chunk.
delete_doc_from_chroma_NoMatch(r, ch, file_id, nomic_api_key, delete_ok) ==
    { IF v.ret = NoneValue
      THEN [ret |-> FALSE, r |-> v.r, chunks |-> ch,
            shown |-> {"Vector Store not initialized, cannot delete."}]
      ELSE IF ~delete_ok
      THEN [ret |-> FALSE, r |-> v.r, chunks |-> ch,
            shown |-> {"Deletion failed"}]
      ELSE [ret |-> TRUE, r |-> v.r, chunks |-> ch, shown |-> {}]
      : v \in ResolveVectorStore(r, nomic_api_key) }

\* chroma_utils.py:224-252.  The outcomes [ret, r, chunks, shown]; the
\* collection's delete(where file_id = str(file_id)) either removes every
\* matching chunk (delete_ok) or raises having removed none.
delete_doc_from_chroma(r, ch, file_id, nomic_api_key, delete_ok) ==
    { IF v.ret = NoneValue
      THEN [ret |-> FALSE, r |-> v.r, chunks |-> ch,
            shown |-> {"Vector Store not initialized, cannot delete."}]
      ELSE IF ~delete_ok
      THEN [ret |-> FALSE, r |-> v.r, chunks |-> ch,
            shown |-> {"Deletion failed"}]
      ELSE [ret |-> TRUE, r |-> v.r,
            chunks |-> {c \in ch : c.file_id # Str(file_id)},
            shown |-> {}]
      : v \in ResolveVectorStore(r, nomic_api_key) }

(***************************************************************************)
(* The sidebar (app/sidebar.py): upload and delete workflows               *)
(***************************************************************************)

\* uuid.uuid4() (streamlit_app.py:63-65): each session draws its own id.
SessionId(s) == "session-" \o s

\* streamlit_app.py:60-65, sidebar.py:19-22, 58, 135-136,
\* chat_interface.py:16-27: st.session_state after a session's first script
\* run.  The keys start empty, the selectbox shows its first option, the
\* document list is loaded from the (still empty) registry.
InitSessionState ==
    [s \in Sessions |->
        [nomic_api_key |-> "", groq_api_key |-> "",
         model |-> "llama-3.1-8b-instant", session_id |-> SessionId(s),
         messages |-> <<[role |-> "assistant",
                         content |-> "Hello! Please enter API Keys in the sidebar."]>>,
         documents |-> {}]]

\* The chat pane between script runs.  History: `logs_before` is the
\* session's rows of application_logs when the question was asked;
\* `history`, `invoke` and `logged` tell how the calls of get_chat_history,
\* rag_chain.invoke and insert_application_logs went ("" when not called).
IdleChat ==
    [pc |-> "idle", prompt |-> "", selected_model |-> "", session_id |-> "",
     rag_chain |-> NoneValue, chat_history |-> <<>>, answer |-> "",
     placeholder |-> [kind |-> "empty", text |-> ""], shown |-> {},
     logs_before |-> <<>>, history |-> "", invoke |-> "", logged |-> ""]

InitChat == [s \in Sessions |-> IdleChat]

\* The sidebar between script runs: nothing on the page, no locals.
\* History: `unregister`, how each call of delete_document_record the
\* workflow made went, in order; `staged`, whether the run has written the
\* temporary file (`temp_file`: whether the file exists); `present`, in which
\* stores the selected document was when its delete was clicked.
IdleSidebar ==
    [pc |-> "idle",
     uploaded_file |-> NoneValue, temp_file |-> FALSE, staged |-> FALSE,
     file_id |-> 0,
     indexing_success |-> FALSE, selected_file_id |-> 0,
     chroma_deleted |-> FALSE, db_deleted |-> FALSE,
     unregister |-> <<>>, present |-> "", shown |-> {}]

InitSidebar == [s \in Sessions |-> IdleSidebar]

\* An exception that leaves display_sidebar ends the script run; Streamlit
\* shows it on the page.
Uncaught(run, exc) ==
    [run EXCEPT !.pc = "done", !.shown = @ \cup {"Uncaught " \o exc}]

\* streamlit_app.py:69-70: one script run at a time per session; a widget
\* is acted on when the previous run is over.
ScriptIdle(s) == sb[s].pc = "idle" /\ ci[s].pc = "idle"

\* sidebar.py:25-40: the user types a Nomic API key.
EnterNomicKey(s) ==
    /\ ScriptIdle(s)
    /\ ss[s].nomic_api_key = ""
    /\ ss' = [ss EXCEPT ![s].nomic_api_key = "nk1"]
    /\ UNCHANGED <<ix, boot, gc, db, chunks, sb, res, ci, now>>

\* A finally block that leaves the temporary file where it is.
RemoveTempFile_Skipped(temp_file) == temp_file

\* sidebar.py:103-108, the finally block: os.remove(temp_file_path) if the
\* file exists.  The result: whether the file exists afterwards.
RemoveTempFile(temp_file) == FALSE

\* sidebar.py:67-108 up to the registry insert: the click on "Upload
\* Document", the staging of the temporary file, insert_document_record and,
\* when that raises, the handlers and the finally block.
ClickUpload(s, f) ==
    /\ ScriptIdle(s)
    /\ db.doc_seq < MaxDocs
    /\ \E fault \in DbFaults :
        LET run == [sb[s] EXCEPT !.uploaded_file = f]
            tmp == [run EXCEPT !.temp_file = TRUE, !.staged = TRUE]
            o   == insert_document_record(db, f.name, fault)
        IN  IF ss[s].nomic_api_key = ""
            THEN /\ sb' = [sb EXCEPT ![s] =
                      [run EXCEPT !.pc = "upload_refresh",
                                 !.shown = {"Please enter the Nomic API Key before uploading."}]]
                 /\ db' = db
            ELSE /\ db' = o.db
                 /\ sb' = [sb EXCEPT ![s] =
                      IF o.exc = "" /\ o.ret # 0
                      THEN [tmp EXCEPT !.pc = "index", !.file_id = o.ret]
                      ELSE [tmp EXCEPT !.pc = "upload_refresh",
                                      !.temp_file = RemoveTempFile(@),
                                      !.shown =
                                         IF o.exc = "ValueError"
                                         THEN {"Upload failed"}
                                         ELSE IF o.exc = ""
                                         THEN {"Failed to get File ID from database."}
                                         ELSE {"An unexpected error occurred during upload"}]]
    /\ UNCHANGED <<ix, boot, gc, chunks, ss, res, ci, now>>

\* sidebar.py:86-117: index_document_to_chroma, the finally block that
\* removes the temporary file, and the report of the result.
UploadIndex(s) ==
    /\ sb[s].pc = "index"
    /\ \E loaded \in LoadOutcomes, add_ok \in BOOLEAN :
        \E o \in index_document_to_chroma(res, chunks,
                     sb[s].uploaded_file.ext, sb[s].file_id,
                     ss[s].nomic_api_key, loaded, add_ok) :
          /\ res' = o.r
          /\ chunks' = o.chunks
          /\ sb' = [sb EXCEPT ![s] =
                [@ EXCEPT !.indexing_success = o.ret,
                          !.temp_file = RemoveTempFile(@),
                          !.pc = IF o.ret THEN "upload_refresh" ELSE "rollback",
                          !.shown = o.shown \cup
                             (IF o.ret THEN {"indexed successfully"}
                              ELSE {"uploaded but indexing failed. Rolling back DB entry."})]]
    /\ UNCHANGED <<ix, boot, gc, db, ss, ci, now>>

\* sidebar.py:119: the rollback, delete_document_record(file_id), whose
\* result is not looked at.
UploadRollback(s) ==
    /\ sb[s].pc = "rollback"
    /\ \E fault \in DbFaults :
        LET o == delete_document_record(db, sb[s].file_id, fault)
        IN  /\ db' = o.db
            /\ sb' = [sb EXCEPT ![s] =
                  IF o.exc # ""
                  THEN Uncaught([@ EXCEPT !.unregister = Append(@, "raised")],
                                o.exc)
                  ELSE [@ EXCEPT !.pc = "upload_refresh",
                                 !.unregister =
                                    Append(@, IF o.ret THEN "ok"
                                              ELSE "failed")]]
    /\ UNCHANGED <<ix, boot, gc, chunks, ss, res, ci, now>>

\* One refresh of st.session_state.documents from get_all_documents().
RefreshDocuments(s) ==
    \E fault \in DbFaults :
        LET o == get_all_documents(db, fault)
        IN  IF o.exc # ""
            THEN sb' = [sb EXCEPT ![s] = Uncaught(@, o.exc)] /\ ss' = ss
            ELSE /\ sb' = [sb EXCEPT ![s].pc = "done"]
                 /\ ss' = [ss EXCEPT ![s].documents = o.ret]

\* sidebar.py:122-124: the refresh after any upload attempt.
UploadRefresh(s) ==
    /\ sb[s].pc = "upload_refresh"
    /\ RefreshDocuments(s)
    /\ UNCHANGED <<ix, boot, gc, db, chunks, res, ci, now>>

\* sidebar.py:130-132: the "Refresh Document List" button.
ClickRefresh(s) ==
    /\ ScriptIdle(s)
    /\ RefreshDocuments(s)
    /\ UNCHANGED <<ix, boot, gc, db, chunks, res, ci, now>>

\* The stores that hold document file_id: the registry (a row with that
\* id), the vector store (a chunk tagged with it), both or neither.
StoresHolding(file_id) ==
    LET row   == \E r \in db.document_store : r.id = file_id
        chunk == \E c \in chunks : c.file_id = Str(file_id)
    IN  IF row /\ chunk THEN "both"
        ELSE IF row THEN "registry"
        ELSE IF chunk THEN "vector_store"
        ELSE "neither"

\* A delete workflow that goes on to the registry whatever the vector store
\* delete returned.
DeleteNextStep_Unconditional(chroma_deleted) == "registry_delete"

\* sidebar.py:159-170: after delete_doc_from_chroma, the registry delete
\* follows only `if chroma_deleted`.
DeleteNextStep(chroma_deleted) ==
    IF chroma_deleted THEN "registry_delete" ELSE "delete_refresh"

\* sidebar.py:142-157, 168-170: the click on "Delete Selected Document" for a
\* document of the session's list, and delete_doc_from_chroma.
ClickDelete(s) ==
    /\ ScriptIdle(s)
    /\ \E doc \in ss[s].documents, delete_ok \in BOOLEAN :
        LET run == [sb[s] EXCEPT !.selected_file_id = doc.id,
                                 !.present = StoresHolding(doc.id)]
        IN  IF ss[s].nomic_api_key = ""
            THEN /\ sb' = [sb EXCEPT ![s] =
                      [run EXCEPT !.pc = "done",
                                 !.shown = {"Nomic API Key needed for deletion."}]]
                 /\ UNCHANGED <<ix, boot, gc, chunks, res, ci, now>>
            ELSE \E o \in delete_doc_from_chroma(res, chunks, doc.id,
                              ss[s].nomic_api_key, delete_ok) :
                   /\ res' = o.r
                   /\ chunks' = o.chunks
                   /\ sb' = [sb EXCEPT ![s] =
                        [run EXCEPT !.chroma_deleted = o.ret,
                                   !.pc = DeleteNextStep(o.ret),
                                   !.shown = o.shown \cup
                                      (IF o.ret THEN {}
                                       ELSE {"Failed to delete document from vector store."})]]
    /\ UNCHANGED <<ix, boot, gc, db, ss, ci, now>>

\* sidebar.py:159-167: the registry delete, attempted only when the vector
\* store delete returned True.
DeleteRegistry(s) ==
    /\ sb[s].pc = "registry_delete"
    /\ \E fault \in DbFaults :
        LET o == delete_document_record(db, sb[s].selected_file_id, fault)
        IN  /\ db' = o.db
            /\ sb' = [sb EXCEPT ![s] =
                  IF o.exc # ""
                  THEN Uncaught([@ EXCEPT !.unregister = Append(@, "raised")],
                                o.exc)
                  ELSE [@ EXCEPT !.pc = "delete_refresh",
                                 !.db_deleted = o.ret,
                                 !.unregister =
                                    Append(@, IF o.ret THEN "ok"
                                              ELSE "failed"),
                                 !.shown = @ \cup
                                    (IF o.ret THEN {"deleted successfully."}
                                     ELSE {"Deleted from vector store, but failed to delete DB record."})]]
    /\ UNCHANGED <<ix, boot, gc, chunks, ss, res, ci, now>>

\* sidebar.py:172-173: the refresh after a delete attempt.
DeleteRefresh(s) ==
    /\ sb[s].pc = "delete_refresh"
    /\ RefreshDocuments(s)
    /\ UNCHANGED <<ix, boot, gc, db, chunks, res, ci, now>>

\* The script run is over; the next interaction starts a new run, with the
\* page cleared and no locals.
FinishRun(s) ==
    /\ sb[s].pc = "done"
    /\ sb' = [sb EXCEPT ![s] = IdleSidebar]
    /\ UNCHANGED <<ix, boot, gc, db, chunks, ss, res, ci, now>>

\* No getter call in progress.  History: `waited`, whether the call found its
\* key missing and went for the key's lock; `ran`, whether it ran the getter's
\* body.
IdleCall ==
    [pc |-> "idle", getter |-> "", key |-> NoneValue, ret |-> NoneValue,
     waited |-> FALSE, ran |-> FALSE]

InitCalls == [s \in Sessions |-> IdleCall]

\* No ingestion function has been called directly.
NoCall ==
    [fn |-> "", ext |-> "", file_id |-> 0, nomic_api_key |-> "",
     loaded |-> [raised |-> "", splits |-> 0], ok |-> TRUE, store |-> FALSE,
     before |-> {}, chains |-> {}, ret |-> FALSE, splits |-> 0, exc |-> "",
     shown |-> {}]

\* ensure_db_initialized has returned in the session's script run.
InitBoot == [s \in Sessions |-> "ready"]

\* The application has started (streamlit_app.py:45-54) and each session
\* has run the script once.
Init ==
    /\ res = InitRes
    /\ db = InitDb
    /\ chunks = {}
    /\ ss = InitSessionState
    /\ sb = InitSidebar
    /\ ci = InitChat
    /\ now = 0
    /\ gc = InitCalls
    /\ boot = InitBoot
    /\ ix = NoCall

NextDocs ==
    \E s \in Sessions :
        \/ EnterNomicKey(s)
        \/ \E f \in DocsFiles : ClickUpload(s, f)
        \/ UploadIndex(s)
        \/ UploadRollback(s)
        \/ UploadRefresh(s)
        \/ ClickRefresh(s)
        \/ ClickDelete(s)
        \/ DeleteRegistry(s)
        \/ DeleteRefresh(s)
        \/ FinishRun(s)

SpecDocs == Init /\ [][NextDocs]_vars

(***************************************************************************)
(* Chat log (utils/db_utils.py)                                            *)
(***************************************************************************)

\* An insert_application_logs that binds the question and the answer to
\* each other's columns.
insert_application_logs_Swapped(d, session_id, user_query, gpt_response, model, fault, at) ==
    IF fault = "connect"
    THEN [exc |-> "ConnectionError", db |-> d]
    ELSE IF fault = "sqlite3.Error"
    THEN [exc |-> "", db |-> d]
    ELSE [exc |-> "",
          db |-> [d EXCEPT !.application_logs =
                      Append(@, [id |-> Len(@) + 1,
                                 session_id |-> session_id,
                                 user_query |-> gpt_response,
                                 gpt_response |-> user_query,
                                 model |-> model,
                                 created_at |-> at])]]

\* db_utils.py:91-98.  [exc, db]: the INSERT appends one row stamped with
\* CURRENT_TIMESTAMP (`at`); sqlite3.Error is logged and swallowed;
\* ConnectionError from get_db_connection is not caught.
insert_application_logs(d, session_id, user_query, gpt_response, model, fault, at) ==
    IF fault = "connect"
    THEN [exc |-> "ConnectionError", db |-> d]
    ELSE IF fault = "sqlite3.Error"
    THEN [exc |-> "", db |-> d]
    ELSE [exc |-> "",
          db |-> [d EXCEPT !.application_logs =
                      Append(@, [id |-> Len(@) + 1,
                                 session_id |-> session_id,
                                 user_query |-> user_query,
                                 gpt_response |-> gpt_response,
                                 model |-> model,
                                 created_at |-> at])]]

\* The rows of one session, in the order they were inserted.
SessionRows(d, session_id) ==
    SelectSeq(d.application_logs, LAMBDA row : row.session_id = session_id)

\* db_utils.py:103, ORDER BY created_at: the orders in which SQLite may
\* return `rows`.  created_at has a resolution of one second and rows with
\* the same created_at may come in any order.
OrderedByCreatedAt(rows) ==
    LET n == Len(rows)
        perms == {p \in [1..n -> 1..n] :
                     /\ \A i, j \in 1..n : i # j => p[i] # p[j]
                     /\ \A i, j \in 1..n :
                            i < j => rows[p[i]].created_at
                                        <= rows[p[j]].created_at}
    IN  {[i \in 1..n |-> rows[p[i]]] : p \in perms}

\* db_utils.py:108-119: one user entry and one assistant entry per row, each
\* only if its text is not empty.
RECURSIVE FlattenRows(_)
FlattenRows(rows) ==
    IF rows = <<>> THEN <<>>
    ELSE (IF Head(rows).user_query # ""
          THEN <<[role |-> "user", content |-> Head(rows).user_query]>>
          ELSE <<>>)
         \o (IF Head(rows).gpt_response # ""
             THEN <<[role |-> "assistant",
                     content |-> Head(rows).gpt_response]>>
             ELSE <<>>)
         \o FlattenRows(Tail(rows))

\* A get_chat_history whose query has no WHERE session_id = ? clause.
get_chat_history_AllSessions(d, session_id, fault) ==
    IF fault = "connect"
    THEN {[ret |-> <<>>, exc |-> "ConnectionError"]}
    ELSE IF fault = "sqlite3.Error"
    THEN {[ret |-> <<>>, exc |-> ""]}
    ELSE {[ret |-> FlattenRows(q), exc |-> ""]
          : q \in OrderedByCreatedAt(d.application_logs)}

\* db_utils.py:101-123.  The outcomes [ret, exc]: [] on sqlite3.Error;
\* ConnectionError is not caught.
get_chat_history(d, session_id, fault) ==
    IF fault = "connect"
    THEN {[ret |-> <<>>, exc |-> "ConnectionError"]}
    ELSE IF fault = "sqlite3.Error"
    THEN {[ret |-> <<>>, exc |-> ""]}
    ELSE {[ret |-> FlattenRows(q), exc |-> ""]
          : q \in OrderedByCreatedAt(SessionRows(d, session_id))}

(***************************************************************************)
(* The chat pane (app/chat_interface.py)                                   *)
(***************************************************************************)

\* A handler that ends the exchange without putting an error on the page.
ChatError_Silent(run, text) == [run EXCEPT !.pc = "done"]

\* chat_interface.py:92-107: the three ways the pane reports a failure.
ChatError(run, text) ==
    [run EXCEPT !.pc = "done",
                !.placeholder = [kind |-> "error", text |-> text]]

\* How rag_chain.invoke can go: it raises, or returns a response; the
\* response create_retrieval_chain builds always holds an answer.
InvokeOutcomes ==
    {[raised |-> TRUE, response |-> <<>>]}
        \cup {[raised |-> FALSE, response |-> [answer |-> a]] : a \in Answers}

\* chat_interface.py:73-74: response.get('answer', <default>).
ExtractAnswer(response) ==
    IF "answer" \in DOMAIN response THEN response.answer
    ELSE "Sorry, I couldn't extract an answer."

\* The user entries among a session's messages.
RECURSIVE UserMessages(_)
UserMessages(messages) ==
    IF messages = <<>> THEN 0
    ELSE (IF Head(messages).role = "user" THEN 1 ELSE 0)
         + UserMessages(Tail(messages))

\* The questions session s has asked so far.
QuestionsAsked(s) == UserMessages(ss[s].messages)

\* sidebar.py:31-40: the user types a Groq API key.
EnterGroqKey(s) ==
    /\ ScriptIdle(s)
    /\ ss[s].groq_api_key = ""
    /\ ss' = [ss EXCEPT ![s].groq_api_key = "gk1"]
    /\ UNCHANGED <<ix, boot, gc, db, chunks, sb, res, ci, now>>

\* sidebar.py:53-58: the user picks another model.
SelectModel(s) ==
    /\ ScriptIdle(s)
    /\ \E m \in model_options :
         /\ m # ss[s].model
         /\ ss' = [ss EXCEPT ![s].model = m]
    /\ UNCHANGED <<ix, boot, gc, db, chunks, sb, res, ci, now>>

\* chat_interface.py:34-60, 92-95: a question arrives; without both keys the
\* pane warns and returns; otherwise the question joins the messages and the
\* chain is resolved.
ChatInput(s) ==
    /\ ScriptIdle(s)
    /\ QuestionsAsked(s) < MaxTurns
    /\ \E prompt \in Prompts :
        IF ss[s].nomic_api_key = "" \/ ss[s].groq_api_key = ""
        THEN /\ ci' = [ci EXCEPT ![s] =
                  [@ EXCEPT !.pc = "done", !.prompt = prompt,
                            !.shown = {"Please enter both Nomic and Groq API keys"}]]
             /\ UNCHANGED <<ix, boot, gc, ss, res>>
        ELSE \E o \in get_cached_rag_chain(res, ss[s].model,
                          ss[s].nomic_api_key, ss[s].groq_api_key) :
               LET run == [ci[s] EXCEPT
                              !.prompt = prompt,
                              !.selected_model = ss[s].model,
                              !.session_id = ss[s].session_id,
                              !.logs_before =
                                  SessionRows(db, ss[s].session_id),
                              !.rag_chain = o.ret]
               IN  /\ res' = o.r
                   /\ ss' = [ss EXCEPT ![s].messages =
                                Append(@, [role |-> "user",
                                           content |-> prompt])]
                   /\ ci' = [ci EXCEPT ![s] =
                        IF o.ret = NoneValue
                        THEN ChatError(run, "The RAG chat chain failed to initialize.")
                        ELSE [run EXCEPT !.pc = "history"]]
    /\ UNCHANGED <<ix, boot, gc, db, chunks, sb, now>>

\* A chat pane that logs the question before it fetches the history: the
\* history given to the chain ends with the question being asked.
ChatHistory_WithQuestion(s) ==
    /\ ci[s].pc = "history"
    /\ \E fault \in DbFaults :
        \E o \in get_chat_history(db, ci[s].session_id, fault) :
          ci' = [ci EXCEPT ![s] =
                   IF o.exc # ""
                   THEN ChatError([@ EXCEPT !.history = "raised"],
                                  "An unexpected error occurred")
                   ELSE [@ EXCEPT !.pc = "invoke",
                                  !.chat_history =
                                      Append(o.ret, [role |-> "user",
                                                     content |-> ci[s].prompt]),
                                  !.history = "returned"]]
    /\ UNCHANGED <<ix, boot, gc, db, chunks, ss, sb, res, now>>

\* chat_interface.py:66, 103-107: get_chat_history(session_id).
ChatHistory(s) ==
    /\ ci[s].pc = "history"
    /\ \E fault \in DbFaults :
        \E o \in get_chat_history(db, ci[s].session_id, fault) :
          ci' = [ci EXCEPT ![s] =
                   IF o.exc # ""
                   THEN ChatError([@ EXCEPT !.history = "raised"],
                                  "An unexpected error occurred")
                   ELSE [@ EXCEPT !.pc = "invoke", !.chat_history = o.ret,
                                  !.history = "returned"]]
    /\ UNCHANGED <<ix, boot, gc, db, chunks, ss, sb, res, now>>

\* chat_interface.py:69-75, 103-107: rag_chain.invoke and the extraction of
\* the answer.
ChatInvoke(s) ==
    /\ ci[s].pc = "invoke"
    /\ \E out \in InvokeOutcomes :
          ci' = [ci EXCEPT ![s] =
                   IF out.raised
                   THEN ChatError([@ EXCEPT !.invoke = "raised"],
                                  "An unexpected error occurred")
                   ELSE [@ EXCEPT !.pc = "log", !.invoke = "returned",
                                  !.answer = ExtractAnswer(out.response)]]
    /\ UNCHANGED <<ix, boot, gc, db, chunks, ss, sb, res, now>>

\* What CURRENT_TIMESTAMP may read at the next statement: the second of the
\* previous reading, or a later one.
ClockReadings == now..MaxClock

\* chat_interface.py:80-87, 103-107: insert_application_logs, then the answer
\* joins the messages and fills the placeholder; an exception from the
\* insert reaches the handler of line 103 instead.
ChatLog(s) ==
    /\ ci[s].pc = "log"
    /\ \E fault \in DbFaults, at \in ClockReadings :
        LET o == insert_application_logs(db, ci[s].session_id, ci[s].prompt,
                     ci[s].answer, ci[s].selected_model, fault, at)
        IN  /\ db' = o.db
            /\ now' = at
            /\ IF o.exc # ""
               THEN /\ ci' = [ci EXCEPT ![s] =
                               ChatError([@ EXCEPT !.logged = "raised"],
                                         "An unexpected error occurred")]
                    /\ ss' = ss
               ELSE /\ ci' = [ci EXCEPT ![s] =
                               [@ EXCEPT !.pc = "done",
                                         !.logged =
                                            IF fault = "none" THEN "ok"
                                            ELSE "swallowed",
                                         !.placeholder =
                                            [kind |-> "answer",
                                             text |-> ci[s].answer]]]
                    /\ ss' = [ss EXCEPT ![s].messages =
                                 Append(@, [role |-> "assistant",
                                            content |-> ci[s].answer])]
    /\ UNCHANGED <<ix, boot, gc, chunks, sb, res>>

\* The script run is over.
FinishChat(s) ==
    /\ ci[s].pc = "done"
    /\ ci' = [ci EXCEPT ![s] = IdleChat]
    /\ UNCHANGED <<ix, boot, gc, db, chunks, ss, sb, res, now>>

NextChat ==
    \E s \in ChatSessions :
        \/ EnterNomicKey(s)
        \/ EnterGroqKey(s)
        \/ SelectModel(s)
        \/ ChatInput(s)
        \/ ChatHistory(s)
        \/ ChatInvoke(s)
        \/ ChatLog(s)
        \/ FinishChat(s)

SpecChat == Init /\ [][NextChat]_vars

(***************************************************************************)
(* Two sessions chatting at once (app/chat_interface.py)                   *)
(***************************************************************************)

\* The exchange each session has had before the two are followed: its
\* question, and the row and the messages it left (chat_interface.py:43,
\* 80-85).
FirstQuestion(s) == IF s = "A" THEN "q1" ELSE "q2"

FirstRow(s, id) ==
    [id |-> id, session_id |-> SessionId(s), user_query |-> FirstQuestion(s),
     gpt_response |-> "a1", model |-> "llama-3.1-8b-instant",
     created_at |-> 0]

\* Both sessions have entered their API keys (sidebar.py:25-40) and have had
\* one exchange each, session A first.
InitPair ==
    /\ res = InitRes
    /\ db = [InitDb EXCEPT !.application_logs =
                               <<FirstRow("A", 1), FirstRow("B", 2)>>]
    /\ chunks = {}
    /\ ss = [s \in Sessions |->
                [InitSessionState[s] EXCEPT
                    !.nomic_api_key = "nk1",
                    !.groq_api_key = "gk1",
                    !.messages = @ \o <<[role |-> "user",
                                         content |-> FirstQuestion(s)],
                                        [role |-> "assistant",
                                         content |-> "a1"]>>]]
    /\ sb = InitSidebar
    /\ ci = InitChat
    /\ now = 0
    /\ gc = InitCalls
    /\ boot = InitBoot
    /\ ix = NoCall

\* The questions the two sessions have asked, together.
PairQuestions == QuestionsAsked("A") + QuestionsAsked("B")

\* The two sessions go on chatting until they have asked MaxTurns further
\* questions between them.
NextPair ==
    \E s \in Sessions :
        \/ PairQuestions < MaxTurns + 2 /\ ChatInput(s)
        \/ ChatHistory(s)
        \/ ChatInvoke(s)
        \/ ChatLog(s)
        \/ FinishChat(s)

SpecPair == InitPair /\ [][NextPair]_vars

(***************************************************************************)
(* SpecCache: the getters called directly with arbitrary arguments         *)
(***************************************************************************)

\* The (key, model, dimensionality) triples the embedding getter is called
\* with when it is exercised on its own: the configured model and
\* dimensionality with each key, and one other model and one other
\* dimensionality (NOMIC_MODEL_NAME and NOMIC_DIMENSIONALITY come from the
\* environment, chroma_utils.py:36-39).
EmbCallArgs ==
    {<<k, NOMIC_MODEL_NAME, NOMIC_DIMENSIONALITY>> : k \in NomicKeys}
        \cup {<<"nk1", "nomic-embed-text-v1", NOMIC_DIMENSIONALITY>>,
              <<"nk1", NOMIC_MODEL_NAME, [kind |-> "int"]>>}

\* A caller asks for the embedding client.
CallGetEmbeddingFunction ==
    \E a \in EmbCallArgs :
      \E o \in get_embedding_function(res, a[1], a[2], a[3]) :
        res' = o.r /\ UNCHANGED <<ix, boot, gc, db, chunks, ss, sb, ci, now>>

\* chroma_utils.py:119-127, is_vectorstore_ready (the same two calls open
\* index_document_to_chroma and delete_doc_from_chroma).
is_vectorstore_ready ==
    \E k \in NomicKeys :
      \E o \in ResolveVectorStore(res, k) :
        res' = o.r /\ UNCHANGED <<ix, boot, gc, db, chunks, ss, sb, ci, now>>

\* A caller asks for the retrieval chain.
CallGetCachedRagChain ==
    \E m \in model_options, ks \in ChainCallKeys :
      \E o \in get_cached_rag_chain(res, m, ks[1], ks[2]) :
        res' = o.r /\ UNCHANGED <<ix, boot, gc, db, chunks, ss, sb, ci, now>>

NextCache ==
    \/ CallGetEmbeddingFunction
    \/ is_vectorstore_ready
    \/ CallGetCachedRagChain

SpecCache == Init /\ [][NextCache]_vars

(***************************************************************************)
(* SpecFlight: two sessions' script threads inside cached getters          *)
(***************************************************************************)

\* The calls followed step by step: the embedding getter with each of two
\* keys, and the chain getter.
FlightCalls ==
    {[getter |-> "embedding",
      key |-> EmbKey(k, NOMIC_MODEL_NAME, NOMIC_DIMENSIONALITY)]
        : k \in {"nk1", "nk2"}}
    \cup {[getter |-> "rag_chain",
           key |-> ChainKey("llama-3.1-8b-instant", "nk1", "gk1")]}

\* st.cache_resource, the lookup: whether the getter's cache has the key.
CacheHit(r, call) ==
    IF call.getter = "embedding" THEN call.key \in DOMAIN r.emb_cache
    ELSE call.key \in DOMAIN r.chain_cache

\* st.cache_resource on a hit: the stored value.
CachedValue(r, call) ==
    IF call.getter = "embedding" THEN r.emb_cache[call.key]
    ELSE r.chain_cache[call.key]

\* st.cache_resource on a miss, with the key's lock held: the getter's body
\* runs and what it returns is stored under the key.
ComputeAndStore(r, call) ==
    IF call.getter = "embedding"
    THEN { [ret |-> o.ret,
            r |-> [NoteRun(o.r, "embedding", call.key) EXCEPT !.emb_cache =
                      CacheStore(@, call.key, o.ret)]]
           : o \in EmbeddingBody(r, call.key) }
    ELSE { [ret |-> o.ret,
            r |-> [NoteRun(o.r, "rag_chain", call.key) EXCEPT !.chain_cache =
                      CacheStore(@, call.key, o.ret)]]
           : o \in RagChainBody(r, call.key) }

\* A lock that lets every caller through.
KeyLockFree_NoLock(s, call) == TRUE

\* st.cache_resource takes a lock per (function, key) before it computes a
\* value: the lock of `call` is free for s when no other session is
\* computing that key of that getter.
KeyLockFree(s, call) ==
    \A t \in Sessions \ {s} :
        ~(gc[t].pc = "computing" /\ gc[t].getter = call.getter
            /\ gc[t].key = call.key)

\* langchain_utils.py:86-94: the body of the chain getter calls
\* get_embedding_function itself, and waits there while another session is
\* computing the embedding client for the same key.
InnerLocksFree(s, call) ==
    call.getter = "rag_chain" =>
        KeyLockFree(s, [getter |-> "embedding",
                        key |-> EmbKey(call.key.nomic_api_key,
                                       NOMIC_MODEL_NAME,
                                       NOMIC_DIMENSIONALITY)])

\* A session's script thread calls a cached getter: the lookup.  A hit
\* returns the stored value; on a miss the thread goes for the key's lock.
GetterLookup(s) ==
    /\ gc[s].pc = "idle"
    /\ \E call \in FlightCalls :
         gc' = [gc EXCEPT ![s] =
                  IF CacheHit(res, call)
                  THEN [IdleCall EXCEPT !.pc = "returned",
                           !.getter = call.getter, !.key = call.key,
                           !.ret = CachedValue(res, call)]
                  ELSE [IdleCall EXCEPT !.pc = "waiting",
                           !.getter = call.getter, !.key = call.key,
                           !.waited = TRUE]]
    /\ UNCHANGED <<ix, boot, db, chunks, ss, sb, ci, now, res>>

\* The thread gets the key's lock and looks the key up again: another
\* thread may have stored the value meanwhile.
GetterAcquire(s) ==
    /\ gc[s].pc = "waiting"
    /\ KeyLockFree(s, [getter |-> gc[s].getter, key |-> gc[s].key])
    /\ gc' = [gc EXCEPT ![s] =
                IF CacheHit(res, gc[s])
                THEN [@ EXCEPT !.pc = "returned",
                               !.ret = CachedValue(res, gc[s])]
                ELSE [@ EXCEPT !.pc = "computing", !.ran = TRUE]]
    /\ UNCHANGED <<ix, boot, db, chunks, ss, sb, ci, now, res>>

\* The thread runs the getter's body, stores the result and releases the
\* lock.
GetterCompute(s) ==
    /\ gc[s].pc = "computing"
    /\ InnerLocksFree(s, gc[s])
    /\ \E o \in ComputeAndStore(res, gc[s]) :
         /\ res' = o.r
         /\ gc' = [gc EXCEPT ![s] = [@ EXCEPT !.pc = "returned",
                                              !.ret = o.ret]]
    /\ UNCHANGED <<ix, boot, db, chunks, ss, sb, ci, now>>

\* The caller has its value; the thread goes on.
GetterReturn(s) ==
    /\ gc[s].pc = "returned"
    /\ gc' = [gc EXCEPT ![s] = IdleCall]
    /\ UNCHANGED <<ix, boot, db, chunks, ss, sb, ci, now, res>>

NextFlight ==
    \E s \in Sessions :
        \/ GetterLookup(s)
        \/ GetterAcquire(s)
        \/ GetterCompute(s)
        \/ GetterReturn(s)

SpecFlight == Init /\ [][NextFlight]_vars

(***************************************************************************)
(* Database initialisation (utils/db_utils.py, app/streamlit_app.py)       *)
(***************************************************************************)

\* A statement that drops table t and creates it again.
CreateTableIfNotExists_Recreate(d, t) ==
    IF t = "document_store"
    THEN [d EXCEPT !.tables = @ \cup {t}, !.document_store = {}]
    ELSE [d EXCEPT !.tables = @ \cup {t}, !.application_logs = <<>>]

\* db_utils.py:32-39, 43-47: CREATE TABLE IF NOT EXISTS t.  SQLite does
\* nothing when t exists; otherwise it creates t, empty.
CreateTableIfNotExists(d, t) ==
    IF t \in d.tables THEN d ELSE [d EXCEPT !.tables = @ \cup {t}]

\* A database file no process has opened yet.
FreshDb ==
    [tables |-> {}, document_store |-> {}, doc_seq |-> 0,
     application_logs |-> <<>>]

\* A database file an earlier process left behind: it holds a document and
\* an exchange.
UsedDb ==
    [tables |-> Tables,
     document_store |-> {[id |-> 1, filename |-> "b.docx"]},
     doc_seq |-> 1,
     application_logs |->
         <<[id |-> 1, session_id |-> "old", user_query |-> "q1",
            gpt_response |-> "a1", model |-> "llama-3.1-8b-instant",
            created_at |-> 0]>>]

\* The process has been started and no script run has reached
\* streamlit_app.py:48 yet: db_utils.py:13 has set the flag to False.
InitStart ==
    /\ res = [InitRes EXCEPT !.db_initialized = FALSE]
    /\ db \in {FreshDb, UsedDb}
    /\ chunks = {}
    /\ ss = InitSessionState
    /\ sb = InitSidebar
    /\ ci = InitChat
    /\ now = 0
    /\ gc = InitCalls
    /\ boot = [s \in Sessions |-> "start"]
    /\ ix = NoCall

\* db_utils.py:55-70: the handlers of _initialize_database turn a
\* sqlite3.Error, an OSError and any other Exception into RuntimeError.
\* streamlit_app.py:50-54 catches it, shows it and ends the script run with
\* sys.exit(1): the run stays at the exception.
InitFailure(exc) == "RuntimeError"

\* The session's script run ended inside ensure_db_initialized.
InitExited(s) ==
    boot[s] \notin {"start", "connect", "create_logs", "create_docs",
                    "set_flag", "ready"}

\* db_utils.py:19-21: the test of the flag.  No lock is held between the
\* test and the assignment at line 53.
InitEnter(s) ==
    /\ boot[s] = "start"
    /\ boot' = [boot EXCEPT ![s] =
                   IF res.db_initialized THEN "ready" ELSE "connect"]
    /\ UNCHANGED <<ix, db, chunks, ss, sb, ci, now, res, gc>>

\* An _initialize_database that sets the flag before it creates the tables.
InitConnect_FlagFirst(s) ==
    /\ boot[s] = "connect"
    /\ res' = [res EXCEPT !.db_initialized = TRUE]
    /\ \E ok \in BOOLEAN :
           boot' = [boot EXCEPT ![s] =
                       IF ok THEN "create_logs" ELSE InitFailure("OSError")]
    /\ UNCHANGED <<ix, db, chunks, ss, sb, ci, now, gc>>

\* db_utils.py:24-27: os.makedirs and get_db_connection.  Either may raise
\* an OSError (ConnectionError is one), which lines 61-65 turn into
\* RuntimeError; streamlit_app.py:50-54 then ends the script run.
InitConnect(s) ==
    /\ boot[s] = "connect"
    /\ \E ok \in BOOLEAN :
           boot' = [boot EXCEPT ![s] =
                       IF ok THEN "create_logs" ELSE InitFailure("OSError")]
    /\ UNCHANGED <<ix, db, chunks, ss, sb, ci, now, res, gc>>

\* db_utils.py:32-39.  The statement takes effect at once: the sqlite3 module
\* opens no transaction for a CREATE TABLE.  A sqlite3.Error becomes
\* RuntimeError at lines 55-60.
InitCreateLogs(s) ==
    /\ boot[s] = "create_logs"
    /\ \E ok \in BOOLEAN :
           IF ok
           THEN /\ db' = CreateTableIfNotExists(db, "application_logs")
                /\ boot' = [boot EXCEPT ![s] = "create_docs"]
           ELSE /\ db' = db
                /\ boot' = [boot EXCEPT ![s] = InitFailure("sqlite3.Error")]
    /\ UNCHANGED <<ix, chunks, ss, sb, ci, now, res, gc>>

\* db_utils.py:43-47.
InitCreateDocs(s) ==
    /\ boot[s] = "create_docs"
    /\ \E ok \in BOOLEAN :
           IF ok
           THEN /\ db' = CreateTableIfNotExists(db, "document_store")
                /\ boot' = [boot EXCEPT ![s] = "set_flag"]
           ELSE /\ db' = db
                /\ boot' = [boot EXCEPT ![s] = InitFailure("sqlite3.Error")]
    /\ UNCHANGED <<ix, chunks, ss, sb, ci, now, res, gc>>

\* db_utils.py:53, and the return to streamlit_app.py:49.  The commit the
\* `with` block makes on leaving has no transaction to commit (the CREATE
\* TABLE statements opened none), so nothing can raise after the flag is
\* set.
InitSetFlag(s) ==
    /\ boot[s] = "set_flag"
    /\ res' = [res EXCEPT !.db_initialized = TRUE]
    /\ boot' = [boot EXCEPT ![s] = "ready"]
    /\ UNCHANGED <<ix, db, chunks, ss, sb, ci, now, gc>>

\* The rest of a script run whose initialisation returned
\* (streamlit_app.py:69-72): here display_sidebar registers a document
\* (sidebar.py:84); an INSERT that raises (without the table it raises
\* sqlite3.Error) registers nothing.
InitRegister(s) ==
    /\ boot[s] = "ready"
    /\ db.doc_seq < MaxDocs
    /\ \E f \in Files :
           LET o == insert_document_record(db, f.name,
                        IF "document_store" \in db.tables
                        THEN "none" ELSE "sqlite3.Error")
           IN  /\ o.exc = ""
               /\ db' = o.db
               /\ sb' = [sb EXCEPT ![s].file_id = o.ret]
    /\ UNCHANGED <<ix, boot, chunks, ss, ci, now, res, gc>>

\* The next script run of the session begins (streamlit_app.py runs from
\* the top on every interaction).
InitRerun(s) ==
    /\ boot[s] = "ready" \/ InitExited(s)
    /\ boot' = [boot EXCEPT ![s] = "start"]
    /\ sb' = [sb EXCEPT ![s] = IdleSidebar]
    /\ UNCHANGED <<ix, db, chunks, ss, ci, now, res, gc>>

NextStart ==
    \E s \in Sessions :
        \/ InitEnter(s)
        \/ InitConnect(s)
        \/ InitCreateLogs(s)
        \/ InitCreateDocs(s)
        \/ InitSetFlag(s)
        \/ InitRegister(s)
        \/ InitRerun(s)

SpecStart == InitStart /\ [][NextStart]_vars

(***************************************************************************)
(* The ingestion functions called on their own (utils/chroma_utils.py)     *)
(***************************************************************************)

\* The suffixes of the paths the functions are called with: two that have a
\* loader and one that has none.
IngestExtensions == {".pdf", ".html", ".txt"}

\* The Nomic keys the functions are called with.
IngestKeys == {"", "nk1"}

\* The getters have handed the caller a vector store: get_vector_store
\* leaves what it returned in its one cache slot.
StoreHeld(r) ==
    /\ VsKey(NoneValue) \in DOMAIN r.vs_cache
    /\ r.vs_cache[VsKey(NoneValue)] # NoneValue

\* A call of load_and_split_document (chroma_utils.py:138-167).
CallLoadAndSplit ==
    /\ \E ext \in IngestExtensions, loaded \in LoadOutcomes :
           LET o == load_and_split_document(ext, loaded)
           IN  ix' = [NoCall EXCEPT !.fn = "load_and_split_document",
                                    !.ext = ext, !.loaded = loaded,
                                    !.before = chunks, !.splits = o.ret,
                                    !.exc = o.exc, !.shown = o.shown]
    /\ UNCHANGED <<db, chunks, ss, sb, ci, now, res, gc, boot>>

\* A call of index_document_to_chroma (chroma_utils.py:170-221).  The id is
\* one that insert_document_record has just handed out (sidebar.py:84-88),
\* so no chunk carries it yet.
CallIndexDocument ==
    /\ \E ext \in IngestExtensions, file_id \in 1..MaxDocs,
          nomic_api_key \in IngestKeys, loaded \in LoadOutcomes,
          add_ok \in BOOLEAN :
           /\ \A c \in chunks : c.file_id # Str(file_id)
           /\ \E o \in index_document_to_chroma(res, chunks, ext, file_id,
                                                nomic_api_key, loaded, add_ok) :
                  /\ chunks' = o.chunks
                  /\ res' = o.r
                  /\ ix' = [NoCall EXCEPT !.fn = "index_document_to_chroma",
                                          !.ext = ext, !.file_id = file_id,
                                          !.nomic_api_key = nomic_api_key,
                                          !.loaded = loaded, !.ok = add_ok,
                                          !.store = StoreHeld(o.r),
                                          !.before = chunks,
                                          !.chains = CachedChains(res),
                                          !.ret = o.ret,
                                          !.exc = o.exc, !.shown = o.shown]
    /\ UNCHANGED <<db, ss, sb, ci, now, gc, boot>>

\* A call of delete_doc_from_chroma (chroma_utils.py:224-252).
CallDeleteDoc ==
    /\ \E file_id \in 1..MaxDocs, nomic_api_key \in IngestKeys,
          delete_ok \in BOOLEAN :
           \E o \in delete_doc_from_chroma(res, chunks, file_id,
                                           nomic_api_key, delete_ok) :
               /\ chunks' = o.chunks
               /\ res' = o.r
               /\ ix' = [NoCall EXCEPT !.fn = "delete_doc_from_chroma",
                                       !.file_id = file_id,
                                       !.nomic_api_key = nomic_api_key,
                                       !.ok = delete_ok,
                                       !.store = StoreHeld(o.r),
                                       !.before = chunks,
                                       !.chains = CachedChains(res),
                                       !.ret = o.ret,
                                       !.shown = o.shown]
    /\ UNCHANGED <<db, ss, sb, ci, now, gc, boot>>

NextIngest ==
    \/ CallLoadAndSplit
    \/ CallIndexDocument
    \/ CallDeleteDoc

SpecIngest == Init /\ [][NextIngest]_vars

(***************************************************************************)
(* A cached chain and later changes of the vector store                    *)
(***************************************************************************)

\* chat_interface.py:56-60: a chat turn asks for the retrieval chain.
CallChainForChat ==
    \E o \in get_cached_rag_chain(res, "llama-3.1-8b-instant", "nk1", "gk1") :
        res' = o.r /\ UNCHANGED <<ix, boot, gc, db, chunks, ss, sb, ci, now>>

NextRetrieve ==
    \/ CallChainForChat
    \/ CallIndexDocument
    \/ CallDeleteDoc

SpecRetrieve == Init /\ [][NextRetrieve]_vars

(***************************************************************************)
(* Properties                                                              *)
(***************************************************************************)

\* The cache a getter's results are stored in.
CacheOf(getter) ==
    IF getter = "embedding" THEN res.emb_cache
    ELSE IF getter = "vector_store" THEN res.vs_cache
    ELSE res.chain_cache

\* C1: for each cached getter, a construction that failed is not stored in
\* the cache, so that the next call with the same key constructs again.
C1_FailedConstructionNotCached ==
    \A f \in res.failed : f.key \notin DOMAIN CacheOf(f.getter)

\* Session s is past the indexing step of an upload whose registration
\* succeeded and whose indexing failed, and past the rollback.
UploadIndexFailed(s) ==
    /\ sb[s].file_id # 0
    /\ ~sb[s].indexing_success
    /\ sb[s].pc \in {"upload_refresh", "done"}

\* C2 as claimed: after an upload whose registration succeeded and whose
\* indexing failed, unregister_document was called and the registry no
\* longer lists the failed filename.
C2_FailedUploadNotListed ==
    \A s \in Sessions :
        UploadIndexFailed(s) =>
            /\ sb[s].unregister # <<>>
            /\ \A row \in db.document_store :
                   row.filename # sb[s].uploaded_file.name

\* C2 as amended: after such an upload unregister_document was called once
\* for the new id, and when that call returned True neither the registry nor
\* the session's document list holds a record with that id.
C2_RollbackRemovesRecord ==
    \A s \in Sessions :
        UploadIndexFailed(s) =>
            /\ Len(sb[s].unregister) = 1
            /\ sb[s].unregister = <<"ok">> =>
                   /\ \A row \in db.document_store : row.id # sb[s].file_id
                   /\ \A doc \in ss[s].documents : doc.id # sb[s].file_id

\* An upload was rolled back successfully and its session has refreshed its
\* document list.
C2_Witness ==
    \E s \in Sessions :
        /\ UploadIndexFailed(s)
        /\ sb[s].unregister = <<"ok">>
        /\ sb[s].pc = "done"
        /\ "Uncaught ConnectionError" \notin sb[s].shown

\* The reports on the page that tell the user the rollback did not go
\* through.
RollbackFailureReports == {"Uncaught ConnectionError"}

\* C3: when the rollback of a failed upload itself fails, the failure is
\* shown to the user, and unregister_document is attempted exactly once.
C3_RollbackFailureSurfaced ==
    \A s \in Sessions :
        (UploadIndexFailed(s) /\ sb[s].unregister # <<"ok">>) =>
            /\ Len(sb[s].unregister) = 1
            /\ sb[s].shown \cap RollbackFailureReports # {}

\* C4, the order: in a delete workflow delete_document_record has been called
\* only if delete_doc_from_chroma returned True; a workflow whose vector-store
\* delete failed has reported that and made no registry call.
C4_RegistryAfterChroma ==
    \A s \in Sessions :
        sb[s].selected_file_id # 0 =>
            /\ sb[s].unregister # <<>> => sb[s].chroma_deleted
            /\ (~sb[s].chroma_deleted /\ ss[s].nomic_api_key # "") =>
                   /\ sb[s].pc \in {"delete_refresh", "done"}
                   /\ ~sb[s].db_deleted
                   /\ "Failed to delete document from vector store."
                          \in sb[s].shown

\* C4, the frame: the step in which a session's vector-store delete fails
\* leaves the registry as it was.
C4_FailedDeleteKeepsRecord ==
    [][\A s \in Sessions :
          (sb[s].pc = "idle" /\ sb'[s].selected_file_id # 0
              /\ ~sb'[s].chroma_deleted) => db' = db]_vars

\* C4: unregister_document is called only after delete_doc_from_chroma
\* returned true for the same id, and a failed vector-store delete ends the
\* workflow with the DocumentRecord still in the registry.
C4_DeleteOrder == []C4_RegistryAfterChroma /\ C4_FailedDeleteKeepsRecord

\* A delete workflow ended after its vector-store delete failed, and the
\* selected document is still registered.
C4_Witness ==
    \E s \in Sessions :
        /\ sb[s].selected_file_id # 0
        /\ ~sb[s].chroma_deleted
        /\ sb[s].pc = "done"
        /\ sb[s].unregister = <<>>
        /\ \E row \in db.document_store : row.id = sb[s].selected_file_id

\* No upload or delete workflow is in progress in any session.
Quiescent == \A s \in Sessions : sb[s].pc \in {"idle", "done"}

\* C5: whenever no workflow is in progress, every chunk in the vector store
\* carries the id of a DocumentRecord of the registry.
C5_NoOrphanedChunks ==
    Quiescent =>
        \A c \in chunks :
            \E row \in db.document_store : Str(row.id) = c.file_id


(***************************************************************************)
(* The chat exchange (checked under SpecChat)                              *)
(***************************************************************************)

\* The exchange of session s is over and rag_chain.invoke returned.
ExchangeAnswered(s) == ci[s].pc = "done" /\ ci[s].invoke = "returned"

\* The page and the session's messages end with the chain's answer.
AnswerDelivered(s) ==
    /\ ci[s].placeholder = [kind |-> "answer", text |-> ci[s].answer]
    /\ ss[s].messages[Len(ss[s].messages)] =
           [role |-> "assistant", content |-> ci[s].answer]

\* C6: insert_application_logs never propagates a failure, whatever the
\* storage fault: once the chain has produced an answer, the answer is shown
\* and added to the session's messages whether or not the append succeeded.
C6_AnswerSurvivesLogFault ==
    \A s \in Sessions :
        ExchangeAnswered(s) =>
            /\ ci[s].logged # "raised"
            /\ AnswerDelivered(s)

\* The exchange of session s met an exception while fetching the history or
\* invoking the chain.
ExchangeRaised(s) == ci[s].history = "raised" \/ ci[s].invoke = "raised"

ExchangeKey(s) ==
    ChainKey(ci[s].selected_model, ss[s].nomic_api_key, ss[s].groq_api_key)

\* C8: when a link of the chain's resolution fails, the getter returns no
\* chain, and an exchange that got no chain ends with the
\* chain-initialization error: the history is not fetched, the chain is not
\* invoked, no turn is logged.
C8_NoChainNoExchange ==
    /\ \A f \in res.failed :
          f.getter = "rag_chain" =>
              /\ f.key \in DOMAIN res.chain_cache
              /\ res.chain_cache[f.key] = NoneValue
    /\ \A s \in Sessions :
          (ci[s].session_id # "" /\ ci[s].rag_chain = NoneValue) =>
              /\ ci[s].pc = "done"
              /\ ci[s].placeholder =
                     [kind |-> "error",
                      text |-> "The RAG chat chain failed to initialize."]
              /\ ci[s].history = ""
              /\ ci[s].invoke = ""
              /\ ci[s].logged = ""
              /\ SessionRows(db, ci[s].session_id) = ci[s].logs_before

\* C8's case: a link failed while the chain of the session's exchange was
\* resolved, and the exchange is over.
C8_Witness ==
    \E s \in Sessions :
        /\ ci[s].session_id # ""
        /\ ci[s].rag_chain = NoneValue
        /\ ci[s].pc = "done"
        /\ [getter |-> "rag_chain", key |-> ExchangeKey(s)] \in res.failed

\* The session's log is the log from before the question plus one row, and
\* that row holds the session id, the question, the answer and the model of
\* the exchange.
OneTurnAppended(s) ==
    LET rows   == SessionRows(db, ci[s].session_id)
        before == ci[s].logs_before
    IN  /\ Len(rows) = Len(before) + 1
        /\ SubSeq(rows, 1, Len(before)) = before
        /\ rows[Len(rows)].session_id = ss[s].session_id
        /\ rows[Len(rows)].user_query = ci[s].prompt
        /\ rows[Len(rows)].gpt_response = ci[s].answer
        /\ rows[Len(rows)].model = ss[s].model

\* C9 as stated: every exchange in which the chain invocation returns
\* appends exactly one turn (session id, question, answer, model) with the
\* session id and model current when the question was asked, and returns
\* that answer to the user.
C9_EveryAnswerLogged ==
    \A s \in Sessions :
        ExchangeAnswered(s) => OneTurnAppended(s) /\ AnswerDelivered(s)

\* C9, amended: an exchange in which the chain invocation returns and the
\* log append meets no storage fault appends exactly one turn (session id,
\* question, answer, model) and returns that answer to the user; when the
\* append meets a storage fault, no turn is appended.
C9_AnswerLoggedUnlessFault ==
    \A s \in Sessions :
        ExchangeAnswered(s) =>
            IF ci[s].logged = "ok"
            THEN OneTurnAppended(s) /\ AnswerDelivered(s)
            ELSE SessionRows(db, ci[s].session_id) = ci[s].logs_before

\* C9's case: the second exchange of a session is answered and logged after
\* the user has switched to another model.
C9_Witness ==
    \E s \in Sessions :
        /\ ExchangeAnswered(s)
        /\ ci[s].logged = "ok"
        /\ ci[s].logs_before # <<>>
        /\ ci[s].logs_before[1].model # ci[s].selected_model

\* One user entry then one assistant entry per row, in the order of `rows`.
RECURSIVE Alternating(_)
Alternating(rows) ==
    IF rows = <<>> THEN <<>>
    ELSE <<[role |-> "user", content |-> Head(rows).user_query],
           [role |-> "assistant", content |-> Head(rows).gpt_response]>>
         \o Alternating(Tail(rows))

\* C10: get_chat_history(session_id) returns the entries in insertion order
\* and round-trips: after N turns (each with a question and an answer) were
\* appended to a session, every fetch yields the N user and N assistant
\* entries, alternating, in the order the turns were appended.
C10_HistoryRoundTrips ==
    \A s \in Sessions :
        LET rows == SessionRows(db, SessionId(s))
        IN  (\A i \in 1..Len(rows) :
                 rows[i].user_query # "" /\ rows[i].gpt_response # "")
            => \A o \in get_chat_history(db, SessionId(s), "none") :
                   o.ret = Alternating(rows)

(***************************************************************************)
(* The resource caches (checked under SpecCache)                           *)
(***************************************************************************)

\* Entries a call leaves in a cache besides its own: what was cached under
\* the other keys is still there, unchanged.
OtherEntriesKept(before, after, key) ==
    \A k \in DOMAIN before \ {key} : k \in DOMAIN after /\ after[k] = before[k]

\* From the current process state, a call of get_embedding_function followed
\* by a second call with the same arguments: the second returns what the
\* first returned and changes nothing (no construction, nothing stored).
EmbeddingCallsRepeat ==
    \A a \in EmbCallArgs :
        \A o1 \in get_embedding_function(res, a[1], a[2], a[3]) :
            \A o2 \in get_embedding_function(o1.r, a[1], a[2], a[3]) :
                o2.ret = o1.ret /\ o2.r = o1.r

\* From the current process state, what a call of get_embedding_function
\* returns is None or a client built from the arguments of the call, it is
\* what the cache then holds under the call's key, and the other entries of
\* the cache are kept.
EmbeddingCallsOwnKey ==
    \A a \in EmbCallArgs :
        \A o \in get_embedding_function(res, a[1], a[2], a[3]) :
            /\ o.ret # NoneValue =>
                  /\ o.ret.nomic_api_key = a[1]
                  /\ o.ret.model = a[2]
                  /\ o.ret.dimensionality = a[3]
            /\ o.r.emb_cache[EmbKey(a[1], a[2], a[3])] = o.ret
            /\ OtherEntriesKept(res.emb_cache, o.r.emb_cache,
                                EmbKey(a[1], a[2], a[3]))

\* The same two properties for get_cached_rag_chain.
ChainCallsRepeat ==
    \A m \in model_options, ks \in ChainCallKeys :
        \A o1 \in get_cached_rag_chain(res, m, ks[1], ks[2]) :
            \A o2 \in get_cached_rag_chain(o1.r, m, ks[1], ks[2]) :
                o2.ret = o1.ret /\ o2.r = o1.r

ChainCallsOwnKey ==
    \A m \in model_options, ks \in ChainCallKeys :
        \A o \in get_cached_rag_chain(res, m, ks[1], ks[2]) :
            /\ o.ret # NoneValue =>
                  o.ret.model = m /\ o.ret.groq_api_key = ks[2]
            /\ o.r.chain_cache[ChainKey(m, ks[1], ks[2])] = o.ret
            /\ OtherEntriesKept(res.chain_cache, o.r.chain_cache,
                                ChainKey(m, ks[1], ks[2]))

\* C11: for the embedding client and the retrieval chain, two sequential
\* calls of the cached getter with identical parameters return the same
\* instance without constructing again, and a call never returns an instance
\* cached for parameters that differ in any component.
C11_CacheKeyedByParameters ==
    /\ EmbeddingCallsRepeat
    /\ EmbeddingCallsOwnKey
    /\ ChainCallsRepeat
    /\ ChainCallsOwnKey

\* C11's case: the embedding cache holds clients for the same API key under
\* two models and under two dimensionalities, and the chain cache holds a
\* chain.
C11_Witness ==
    /\ \A a \in {a \in EmbCallArgs : a[1] = "nk1"} :
          /\ EmbKey(a[1], a[2], a[3]) \in DOMAIN res.emb_cache
          /\ res.emb_cache[EmbKey(a[1], a[2], a[3])] # NoneValue
    /\ \E k \in DOMAIN res.chain_cache : res.chain_cache[k] # NoneValue

\* The embedding clients get_vector_store may be called with: what
\* get_embedding_function has returned so far, and None.
EmbeddingClients ==
    {res.emb_cache[k] : k \in DOMAIN res.emb_cache} \cup {NoneValue}

\* C12: the vector-store cache is a mapping keyed by the construction
\* parameter: get_vector_store called with an embedding client returns a
\* handle built from that client, and returns no handle only when it was
\* called without a client or when Chroma could not be constructed; never
\* the result cached for another client.
C12_VectorStoreKeyedByClient ==
    \A e \in EmbeddingClients :
        \A o \in get_vector_store(res, e) :
            IF o.ret # NoneValue
            THEN o.ret.embedding_function = e
            ELSE \/ e = NoneValue
                 \/ [getter |-> "vector_store", key |-> VsKey(e)]
                        \in o.r.failed

(***************************************************************************)
(* Concurrent getter calls (checked under SpecFlight)                      *)
(***************************************************************************)

\* Sessions s and t are in, or just out of, calls of the same getter with
\* the same key.
SameCall(s, t) ==
    /\ s # t
    /\ gc[s].pc # "idle" /\ gc[t].pc # "idle"
    /\ gc[s].getter = gc[t].getter
    /\ gc[s].key = gc[t].key

\* C13: when two sessions call a cached getter concurrently with the same
\* key that is not cached yet, the construction runs at most once, and the
\* caller that waited receives the instance the other one built.
C13_SingleFlight ==
    \A s, t \in Sessions :
        SameCall(s, t) =>
            /\ ~(gc[s].ran /\ gc[t].ran)
            /\ (gc[s].pc = "returned" /\ gc[t].pc = "returned")
                   => gc[s].ret = gc[t].ret
            /\ (gc[s].pc = "returned" /\ ~gc[s].ran)
                   => gc[s].ret = CachedValue(res, gc[s])

\* C13's case: two sessions found the same key missing, one of them built
\* the instance and the other, after waiting, received it.
C13_Witness ==
    \E s, t \in Sessions :
        /\ SameCall(s, t)
        /\ gc[s].pc = "returned" /\ gc[t].pc = "returned"
        /\ gc[s].ran
        /\ gc[t].waited /\ ~gc[t].ran
        /\ gc[t].ret # NoneValue

(***************************************************************************)
(* Upload and delete workflows, continued (checked under SpecDocs)         *)
(***************************************************************************)

\* Session s's upload has left the try / finally of sidebar.py:82-108.
PastFinally(s) == sb[s].pc \in {"rollback", "upload_refresh", "done"}

\* C14: every upload attempt that staged a temporary file ends with the
\* file removed, whether the registration failed, the indexing returned
\* False or raised, or the indexing succeeded.
C14_TempFileRemoved ==
    \A s \in Sessions :
        (sb[s].staged /\ PastFinally(s)) => ~sb[s].temp_file

\* C14's case: one session's upload staged a file and failed to register,
\* another's staged a file, registered and failed to index.
C14_Witness ==
    \E s, t \in Sessions :
        /\ sb[s].staged /\ PastFinally(s) /\ sb[s].file_id = 0
        /\ sb[t].staged /\ PastFinally(t) /\ sb[t].file_id # 0
        /\ ~sb[t].indexing_success

\* Session s's upload staged its file and insert_document_record gave it no
\* id (it raised).
RegisterFailed(s) == sb[s].staged /\ sb[s].file_id = 0

\* What the sidebar shows when insert_document_record raised: the handler
\* of ValueError (duplicate filename) and the handler of every other
\* exception; both messages carry the text of the exception.
RegisterFailureReports ==
    {"Upload failed", "An unexpected error occurred during upload"}

\* C15, the state: an upload whose registration failed is at the refresh or
\* over, has reported the error, has not indexed and has not called
\* delete_document_record.
C15_RegisterFailedStops ==
    \A s \in Sessions :
        RegisterFailed(s) =>
            /\ sb[s].pc \in {"upload_refresh", "done"}
            /\ sb[s].shown \cap RegisterFailureReports # {}
            /\ ~sb[s].indexing_success
            /\ sb[s].unregister = <<>>

\* C15, the frame: the step in which the registration fails, and every
\* later step of that script run, leaves the registry, the vector store and
\* the resource caches as they were.
C15_RegisterFailedFrame ==
    [][\A s \in Sessions :
          (/\ sb'[s] # sb[s]
           /\ \/ RegisterFailed(s)
              \/ sb'[s].staged /\ sb'[s].file_id = 0)
              => /\ db' = db
                 /\ chunks' = chunks
                 /\ res' = res]_vars

\* C15: when register_document fails in an upload, the workflow stops with
\* the error reported: index and unregister_document are never called, and
\* the document already registered under that filename keeps its record and
\* its chunks.
C15_RegisterFailure == []C15_RegisterFailedStops /\ C15_RegisterFailedFrame

\* C15's case: an upload was refused as a duplicate of a document that is
\* registered and indexed.
C15_Witness ==
    \E s \in Sessions :
        /\ RegisterFailed(s)
        /\ "Upload failed" \in sb[s].shown
        /\ \E row \in db.document_store :
              /\ row.filename = sb[s].uploaded_file.name
              /\ \E c \in chunks : c.file_id = Str(row.id)

\* No two rows of document_store have the same filename or the same id.
FilenamesUnique ==
    \A r1, r2 \in db.document_store :
        (r1.filename = r2.filename \/ r1.id = r2.id) => r1 = r2

\* From the current database, insert_document_record for a filename that is
\* registered: without a storage fault it raises the duplicate-name error,
\* and with or without one it leaves the table as it is.
DuplicateInsertRefused ==
    \A f \in Files :
        (\E row \in db.document_store : row.filename = f.name) =>
            /\ insert_document_record(db, f.name, "none").exc = "ValueError"
            /\ \A fault \in DbFaults :
                  LET o == insert_document_record(db, f.name, fault)
                  IN  /\ o.exc # ""
                      /\ o.db = db
                      /\ Cardinality(o.db.document_store)
                            = Cardinality(db.document_store)

\* C16: filenames in the registry are unique in every reachable state, also
\* when two sessions register the same filename concurrently; registering a
\* filename that is already there fails with the duplicate-name error,
\* creates no second row and leaves the length of the list unchanged.
C16_FilenamesUnique == FilenamesUnique /\ DuplicateInsertRefused

\* C16's case: two sessions have uploaded the same filename; one was
\* registered, the other refused, and the registry has the one row.
C16_Witness ==
    \E s, t \in Sessions :
        /\ sb[s].file_id # 0
        /\ RegisterFailed(t) /\ "Upload failed" \in sb[t].shown
        /\ sb[s].uploaded_file = sb[t].uploaded_file
        /\ Cardinality({row \in db.document_store :
                           row.filename = sb[t].uploaded_file.name}) = 1

\* Session s's delete workflow has made both deletes and both succeeded.
DeletedFromBoth(s) ==
    /\ sb[s].selected_file_id # 0
    /\ sb[s].chroma_deleted
    /\ sb[s].db_deleted

\* C17, a document present in both stores: when both deletes succeeded, no
\* chunk tagged with the id and no record with the id is left.
C17_DeleteRemovesBoth ==
    \A s \in Sessions :
        (DeletedFromBoth(s) /\ sb[s].present = "both") =>
            /\ \A c \in chunks : c.file_id # Str(sb[s].selected_file_id)
            /\ \A row \in db.document_store :
                  row.id # sb[s].selected_file_id

\* C17, an id in neither store: the workflow reports success.
C17_DeleteAbsentSucceeds ==
    \A s \in Sessions :
        (sb[s].present = "neither" /\ ss[s].nomic_api_key # ""
            /\ sb[s].chroma_deleted /\ sb[s].unregister = <<"ok">>) =>
            "deleted successfully." \in sb[s].shown

\* C17, an id in neither store: no step of the workflow changes the vector
\* store or the registry.
C17_DeleteAbsentFrame ==
    [][\A s \in Sessions :
          (sb'[s] # sb[s] /\ sb'[s].present = "neither")
              => chunks' = chunks /\ db' = db]_vars

\* C17: a delete workflow for a document present in both stores, when both
\* steps succeed, leaves no chunk tagged with the id and no record with the
\* id; a delete workflow for an id in neither store reports success and
\* changes neither store.
C17_DeleteWorkflow ==
    /\ []C17_DeleteRemovesBoth
    /\ []C17_DeleteAbsentSucceeds
    /\ C17_DeleteAbsentFrame

\* C17's case: one session has deleted a document that was in both stores,
\* and another has then run the delete for the same, now absent, id with
\* success.
C17_Witness ==
    \E s, t \in Sessions :
        /\ DeletedFromBoth(s) /\ sb[s].present = "both"
        /\ DeletedFromBoth(t) /\ sb[t].present = "neither"
        /\ sb[s].selected_file_id = sb[t].selected_file_id
        /\ "deleted successfully." \in sb[t].shown

\* The ids delete_document_record may be called with: those handed out so
\* far and the next one.
DocumentIds == 1..(db.doc_seq + 1)

\* C18: from the current database, delete_document_record(id) returns True
\* whether or not a row with that id exists, a second call with the same id
\* returns True and changes nothing, and, with or without a storage fault,
\* no row with a different id is removed.
C18_DeleteIfExists ==
    \A id \in DocumentIds :
        LET o1 == delete_document_record(db, id, "none")
            o2 == delete_document_record(o1.db, id, "none")
        IN  /\ o1.ret /\ o1.exc = ""
            /\ o2.ret /\ o2.exc = "" /\ o2.db = o1.db
            /\ \A fault \in DbFaults :
                  \A row \in db.document_store :
                      row.id # id =>
                          row \in delete_document_record(db, id, fault)
                                      .db.document_store

\* C18's case: delete_document_record was called for an id that had no row
\* and returned True, while a document with another id is registered.
C18_Witness ==
    \E s \in Sessions :
        /\ sb[s].present = "neither"
        /\ sb[s].unregister = <<"ok">>
        /\ \E row \in db.document_store : row.id # sb[s].selected_file_id

\* Session s's delete workflow removed the chunks and its registry delete
\* then failed: delete_document_record returned False or raised.
RegistryDeleteFailed(s) ==
    /\ sb[s].selected_file_id # 0
    /\ sb[s].chroma_deleted
    /\ sb[s].unregister \in {<<"failed">>, <<"raised">>}

\* C19: in a delete workflow whose vector-store delete succeeded and whose
\* registry delete then failed for any storage fault, the user is shown the
\* partial-failure report (deleted from the vector store, not from the
\* registry).
C19_PartialFailureReported ==
    \A s \in Sessions :
        RegistryDeleteFailed(s) =>
            "Deleted from vector store, but failed to delete DB record."
                \in sb[s].shown

\* C20: whenever the relational store is unreadable (the query fails or the
\* connection cannot be opened), get_all_documents returns an empty sequence
\* and raises nothing.
C20_ListNeverRaises ==
    \A fault \in DbFaults \ {"none"} :
        LET o == get_all_documents(db, fault)
        IN  o.exc = "" /\ o.ret = {}

\* A step of _initialize_database by some session.
InitialisationStep ==
    \E s \in Sessions :
        /\ boot[s] \in {"start", "connect", "create_logs", "create_docs",
                        "set_flag"}
        /\ boot'[s] # boot[s]

\* Two sessions are inside _initialize_database at once, both past the test
\* of the flag, over tables that hold rows.
C21_Witness ==
    /\ boot["A"] = "create_docs"
    /\ boot["B"] = "create_logs"
    /\ db.document_store # {}
    /\ db.application_logs # <<>>

\* C21: however calls of ensure_db_initialized are repeated and interleaved,
\* a call that has returned leaves both tables in existence (and the flag is
\* set only then), and no step of a call changes the rows or the id counter
\* of either table or removes a table.
C21_InitialisationIdempotent ==
    /\ [](/\ (\E s \in Sessions : boot[s] = "ready") => db.tables = Tables
          /\ res.db_initialized => db.tables = Tables)
    /\ [][InitialisationStep =>
              /\ db'.document_store = db.document_store
              /\ db'.application_logs = db.application_logs
              /\ db'.doc_seq = db.doc_seq
              /\ db.tables \subseteq db'.tables
              /\ db.tables = Tables => db' = db]_vars

\* The last call was index_document_to_chroma, it got a vector store, and a
\* step inside its try block raised: the loader or the splitter, the test of
\* the extension, or add_documents.
IndexFault ==
    /\ ix.fn = "index_document_to_chroma"
    /\ ix.store
    /\ \/ ix.ext \notin SupportedExtensions
       \/ ix.loaded.raised # ""
       \/ ix.loaded.splits > 0 /\ ~ix.ok

\* The file had no loader, and the call said so on the page.
C22_Witness ==
    /\ IndexFault
    /\ ix.ext = ".txt"
    /\ ~ix.ret
    /\ "Indexing failed" \in ix.shown

\* C22: no exception leaves index_document_to_chroma, and when the loader,
\* the splitter, the test of the extension or the upsert raises, the call
\* returns False and has shown an error on the page.
C22_IndexNeverRaises ==
    /\ ix.fn = "index_document_to_chroma" => ix.exc = ""
    /\ IndexFault => ~ix.ret /\ ix.shown # {}

\* The chunks in the vector store that carry the tag of document file_id.
ChunksOf(ch, file_id) == {c \in ch : c.file_id = Str(file_id)}

\* add_documents raised on a document that was split into chunks, while the
\* store held the chunks of another document.
C23_Witness ==
    /\ ix.fn = "index_document_to_chroma"
    /\ ix.store
    /\ ix.loaded.splits > 0
    /\ ~ix.ok
    /\ ~ix.ret
    /\ ix.before # {}

\* C23: when index_document_to_chroma returns False for a document id, the
\* vector store holds no chunk tagged with that id and is as it was before
\* the call.
C23_FailedIndexWritesNothing ==
    (ix.fn = "index_document_to_chroma" /\ ~ix.ret) =>
        /\ ChunksOf(chunks, ix.file_id) = {}
        /\ chunks = ix.before

\* The loader and the splitter ran without fault and made no chunk.
C24_Witness ==
    /\ ix.fn = "index_document_to_chroma"
    /\ ix.store
    /\ ix.ext \in SupportedExtensions
    /\ ix.loaded = [raised |-> "", splits |-> 0]
    /\ ix.ok
    /\ ~ix.ret

\* C24: index_document_to_chroma returns True only if load_and_split_document
\* made at least one chunk and the upsert of all of them completed, and it
\* returns False when no chunk was made.
C24_NoZeroChunkSuccess ==
    ix.fn = "index_document_to_chroma" =>
        /\ ix.ret =>
               /\ ix.ext \in SupportedExtensions
               /\ ix.loaded.raised = ""
               /\ ix.loaded.splits >= 1
               /\ ix.ok
               /\ ChunksOf(chunks, ix.file_id)
                      = TagSplits(ix.loaded.splits, ix.file_id)
        /\ ix.loaded.splits = 0 => ~ix.ret

\* C25: load_and_split_document raises only for an extension it has no
\* loader for; when a loader or the splitter fails on a supported extension
\* it raises nothing, returns no chunk and shows an error.
C25_LoadRaisesOnlyUnsupported ==
    ix.fn = "load_and_split_document" =>
        /\ ix.exc # "" => ix.ext \notin SupportedExtensions
        /\ (ix.ext \in SupportedExtensions /\ ix.loaded.raised # "") =>
               /\ ix.exc = ""
               /\ ix.splits = 0
               /\ ix.shown # {}

\* A delete removed the chunks of one document from a store that also held
\* the chunks of another.
C28_Witness ==
    /\ ix.fn = "delete_doc_from_chroma"
    /\ ix.ret
    /\ chunks # {}
    /\ chunks # ix.before

\* C28: every chunk index_document_to_chroma adds carries str(file_id) as its
\* file_id tag and a successful index adds at least one; a
\* delete_doc_from_chroma that returns True leaves exactly the chunks that do
\* not carry str(file_id), and one that returns False leaves the store as it
\* was.
C28_TagAndDeleteByTag ==
    /\ ix.fn = "index_document_to_chroma" =>
           /\ ix.before \subseteq chunks
           /\ chunks \ ix.before \subseteq ChunksOf(chunks, ix.file_id)
           /\ ix.ret => chunks \ ix.before # {}
    /\ ix.fn = "delete_doc_from_chroma" =>
           IF ix.ret
           THEN chunks = ix.before \ ChunksOf(ix.before, ix.file_id)
           ELSE chunks = ix.before

\* The sidebar of session s reports the upload as successful.
UploadReported(run) == "indexed successfully" \in run.shown

\* C26 (the report): the sidebar reports an upload as successful exactly
\* when insert_document_record returned an id and index_document_to_chroma
\* then returned True, and then it has made no rollback call.
C26_ReportIffRegisteredAndIndexed ==
    \A s \in Sessions :
        /\ UploadReported(sb[s]) <=>
               (sb[s].file_id # 0 /\ sb[s].indexing_success)
        /\ UploadReported(sb[s]) => sb[s].unregister = <<>>

\* C26: an upload is reported as successful exactly when
\* insert_document_record returned an id and index_document_to_chroma then
\* returned True; at the step that makes the report no rollback follows, the
\* registry holds the record with the new id and the vector store holds
\* chunks tagged with it.
C26_UploadIndexed ==
    /\ []C26_ReportIffRegisteredAndIndexed
    /\ [][\A s \in Sessions :
              (~UploadReported(sb[s]) /\ UploadReported(sb'[s])) =>
                  /\ sb'[s].pc = "upload_refresh"
                  /\ \E row \in db'.document_store : row.id = sb'[s].file_id
                  /\ ChunksOf(chunks', sb'[s].file_id) # {}]_vars

\* The embedding clients in the cache (a cached None is no client).
CachedClients == {k \in DOMAIN res.emb_cache : res.emb_cache[k] # NoneValue}

\* C27: a step leaves every cached embedding client in the cache as it is,
\* and leaves os.environ["NOMIC_API_KEY"] as it is while it holds the key a
\* cached client was built from.
C27_CachedClientUntouched ==
    [][\A k \in CachedClients :
           /\ k \in DOMAIN res'.emb_cache
           /\ res'.emb_cache[k] = res.emb_cache[k]
           /\ res.environ = k.nomic_api_key => res'.environ = res.environ]_vars

\* The two sequences hold the same entries, each as many times.
SameEntries(a, b) ==
    /\ Len(a) = Len(b)
    /\ \A i \in 1..Len(a) :
           Cardinality({j \in 1..Len(a) : a[j] = a[i]})
               = Cardinality({j \in 1..Len(b) : b[j] = a[i]})

\* The order of the steps of an exchange: the chain is invoked only with a
\* fetched history, the turn is logged only after the chain has returned, and
\* until then the session's rows are those that were there when the question
\* was asked.
FetchInvokeAppend(s) ==
    /\ ci[s].invoke # "" => ci[s].history = "returned"
    /\ ci[s].logged # "" => ci[s].invoke = "returned"
    /\ ci[s].pc \in {"history", "invoke", "log"} =>
           SessionRows(db, ci[s].session_id) = ci[s].logs_before

HistoryOf(d, t) == {o.ret : o \in get_chat_history(d, SessionId(t), "none")}

C31_Witness ==
    /\ \E row \in db.document_store : row.id = 2
    /\ ChunksOf(chunks, 1) # {}
    /\ ~\E row \in db.document_store : row.id = 1

\* C31: every id insert_document_record hands out is larger than all ids
\* handed out before (the AUTOINCREMENT counter never goes back, also when
\* rows are deleted or rolled back), so no chunk in the vector store carries
\* the id of a document at the moment it is registered.
C31_IdsNeverReused ==
    /\ [](\A row \in db.document_store : row.id <= db.doc_seq)
    /\ [][/\ db'.doc_seq >= db.doc_seq
          /\ \A row \in db'.document_store \ db.document_store :
                 /\ row.id > db.doc_seq
                 /\ \A s \in Sessions : sb[s].file_id # row.id
                 /\ ChunksOf(chunks, row.id) = {}]_vars

\* A document was indexed while a chain was in the cache.
C32_Witness ==
    /\ ix.fn = "index_document_to_chroma"
    /\ ix.ret
    /\ ix.chains # {}
    /\ ix.before = {}

\* C32: a chain that was in the cache when a document was indexed or deleted
\* is still the cached chain afterwards, its retriever is built on the handle
\* get_vector_store gives to index_document_to_chroma and
\* delete_doc_from_chroma, and it searches the store's current contents: the
\* chunks just indexed are among them and the chunks just deleted are not.
C32_CachedChainSeesStore ==
    \A k \in ix.chains :
        /\ k \in CachedChains(res)
        /\ res.chain_cache[k].vectorstore = res.vs_cache[VsKey(NoneValue)]
        /\ Retrievable(res.chain_cache[k], chunks) = chunks
        /\ (ix.fn = "index_document_to_chroma" /\ ix.ret) =>
               /\ ChunksOf(chunks, ix.file_id) # {}
               /\ ChunksOf(chunks, ix.file_id)
                      \subseteq Retrievable(res.chain_cache[k], chunks)
        /\ (ix.fn = "delete_doc_from_chroma" /\ ix.ret) =>
               ChunksOf(Retrievable(res.chain_cache[k], chunks), ix.file_id)
                   = {}

\* A session's initialisation failed on the second table and its run ended,
\* after the first table was created and while the flag is not set.
C33_Witness ==
    /\ \E s \in Sessions : InitExited(s)
    /\ db.tables = {"application_logs"}
    /\ ~res.db_initialized

\* C33: the flag _db_initialized is set only when both tables exist; a call
\* of ensure_db_initialized that fails leaves the flag as it was and ends the
\* script run with RuntimeError; a run whose call failed runs no workflow;
\* and the next call of a session runs the initialisation again exactly when
\* the flag is not set.
C33_FlagOnlyAfterTables ==
    /\ [](/\ res.db_initialized => db.tables = Tables
          /\ \A s \in Sessions : InitExited(s) => boot[s] = "RuntimeError")
    /\ [][\A s \in Sessions :
              /\ (~InitExited(s) /\ InitExited(s)') =>
                     res'.db_initialized = res.db_initialized
              /\ (sb'[s] # sb[s] /\ sb'[s] # IdleSidebar) =>
                     boot[s] = "ready"
              /\ (boot[s] = "start" /\ boot'[s] # "start") =>
                     (boot'[s] = "connect" <=> ~res.db_initialized)]_vars

====
